---- MODULE Spec2Model ----
(***************************************************************************)
(* A model of the datamatrix entity store (json_asset_manager.go) and its  *)
(* minimal SQL engine (sql_parser.go).  Strings are TLA+ strings; a single *)
(* character is a string of length one, obtained with SubSeq.              *)
(***************************************************************************)
EXTENDS Integers, Sequences, FiniteSets, TLC

VARIABLES
    assetFile,   \* id -> the <id>.json document file of the trie directory
    metaFile,    \* id -> the <id>.metadata.json provenance file
    columns,     \* JSONAssetManager.columns, the in-memory column catalog
    Data,        \* JSONAssetManager.Data, the compatibility map
    wk,          \* worker -> the frame of its UpdateAssetFromCSVWithDate call
    log,         \* history of the merge calls, in the order they were made
    q,           \* the frame of an ExecuteSQLQuery call
    assetIDs,    \* JSONAssetManager.assetIDs, the cache of known identifiers
    api,         \* the last call of the store's interface and what it returned
    legacy,      \* the legacy index file asset_index.json of the data directory
    lf,          \* the LoadFiles call: its job channel and its worker goroutines
    unreadable,  \* the document files whose bytes are not a JSON object right now
    pt,          \* the ProgressTracker, its timers and the goroutines that call it
    idPrefixFilter  \* JSONAssetManager.idPrefixFilter, the patterns of the id filter

vars == <<assetFile, metaFile, columns, Data, wk, log, q, assetIDs, api, legacy, lf,
          unreadable, pt, idPrefixFilter>>

----------------------------------------------------------------------------
(* Bounds of the model. *)

NumWorkers == 2
MaxMerges == 2
MaxSeqMerges == 3

Workers == 1..NumWorkers

----------------------------------------------------------------------------
(* Strings: Go compares strings byte by byte; strings.ToUpper/ToLower map  *)
(* the ASCII letters.                                                      *)

CharAt(s, i) == SubSeq(s, i, i)

\* The printable ASCII characters the model uses, in byte order.
Ascii == " !'()*,-./0123456789<=>ABCDEFGHIJKLMNOPQRSTUVWXYZ_abcdefghijklmnopqrstuvwxyz"

AsciiChars == {CharAt(Ascii, i) : i \in 1..Len(Ascii)}

CharCode == [c \in AsciiChars |-> CHOOSE i \in 1..Len(Ascii) : CharAt(Ascii, i) = c]

UpperLetters == "ABCDEFGHIJKLMNOPQRSTUVWXYZ"
LowerLetters == "abcdefghijklmnopqrstuvwxyz"

UpperChar == [c \in AsciiChars |->
    IF \E i \in 1..Len(LowerLetters) : CharAt(LowerLetters, i) = c
    THEN CharAt(UpperLetters, CHOOSE i \in 1..Len(LowerLetters) : CharAt(LowerLetters, i) = c)
    ELSE c]

LowerChar == [c \in AsciiChars |->
    IF \E i \in 1..Len(UpperLetters) : CharAt(UpperLetters, i) = c
    THEN CharAt(LowerLetters, CHOOSE i \in 1..Len(UpperLetters) : CharAt(UpperLetters, i) = c)
    ELSE c]

\* strings.ToUpper, one half of the string after the other
RECURSIVE ToUpper(_)
ToUpper(s) ==
    IF Len(s) = 0 THEN ""
    ELSE IF Len(s) = 1 THEN UpperChar[s]
    ELSE ToUpper(SubSeq(s, 1, Len(s) \div 2)) \o ToUpper(SubSeq(s, Len(s) \div 2 + 1, Len(s)))

\* strings.ToLower
RECURSIVE ToLower(_)
ToLower(s) ==
    IF Len(s) = 0 THEN ""
    ELSE IF Len(s) = 1 THEN LowerChar[s]
    ELSE ToLower(SubSeq(s, 1, Len(s) \div 2)) \o ToLower(SubSeq(s, Len(s) \div 2 + 1, Len(s)))

\* a < b for Go strings
RECURSIVE StrLess(_, _)
StrLess(a, b) ==
    IF Len(b) = 0 THEN FALSE
    ELSE IF Len(a) = 0 THEN TRUE
    ELSE IF CharAt(a, 1) = CharAt(b, 1) THEN StrLess(SubSeq(a, 2, Len(a)), SubSeq(b, 2, Len(b)))
    ELSE CharCode[CharAt(a, 1)] < CharCode[CharAt(b, 1)]

StrGreater(a, b) == StrLess(b, a)

HasPrefix(s, p) == Len(s) >= Len(p) /\ SubSeq(s, 1, Len(p)) = p
HasSuffix(s, p) == Len(s) >= Len(p) /\ SubSeq(s, Len(s) - Len(p) + 1, Len(s)) = p

----------------------------------------------------------------------------
(* The inputs of the model: identifiers, columns, cell values, files.      *)

IdCol == "ID_BB_GLOBAL"

Ids == {"AAPL", "MSFT"}

DataCols == {"Company", "Revenue"}

\* The header rows of the ingested files: the identifier column and one data column.
Headers == {<<IdCol, c>> : c \in DataCols}

\* Source files, by effective date; the second and the third share a date.
FileNames == <<"companies_20231231.csv", "companies_20240101.csv", "details_20240101.csv",
               "prices_20240102.csv">>

Files == 1..Len(FileNames)

\* The value a file carries in the data cell of its rows; no two files agree.
FileValue == <<"365.8", "999", "168.1", "86.0">>

\* time.Now().Format("20060102") during the run
Today == "20261101"

Digits == "0123456789"

IsDigit(c) == \E i \in 1..Len(Digits) : CharAt(Digits, i) = c

DigitVal(c) == CharCode[c] - CharCode["0"]

RECURSIVE Atoi(_)
Atoi(s) == IF Len(s) = 0 THEN 0
           ELSE 10 * Atoi(SubSeq(s, 1, Len(s) - 1)) + DigitVal(CharAt(s, Len(s)))

IsLeap(y) == y % 4 = 0 /\ (y % 100 # 0 \/ y % 400 = 0)

DaysIn(y, m) == IF m = 2 THEN (IF IsLeap(y) THEN 29 ELSE 28)
                ELSE IF m \in {4, 6, 9, 11} THEN 30 ELSE 31

\* time.Parse("20060102", s) succeeds, for s of eight digits
ValidDate(s) ==
    LET y == Atoi(SubSeq(s, 1, 4))
        m == Atoi(SubSeq(s, 5, 6))
        d == Atoi(SubSeq(s, 7, 8))
    IN  m \in 1..12 /\ d >= 1 /\ d <= DaysIn(y, m)

AllDigits(s) == \A i \in 1..Len(s) : IsDigit(CharAt(s, i))

\* regexp \d{8} FindString: the leftmost run of eight digits, "" when there is none
FindDigits8(s) ==
    LET starts == {p \in 1..(Len(s) - 7) : AllDigits(SubSeq(s, p, p + 7))}
    IN  IF starts = {} THEN ""
        ELSE LET p == CHOOSE x \in starts : \A y \in starts : x <= y
             IN  SubSeq(s, p, p + 7)

getEffectiveDateFromFilename(filename) ==
    LET match == FindDigits8(filename)
    IN  IF match # "" /\ ValidDate(match) THEN match ELSE Today

\* the effective date LoadCSVFile hands to the merges of a file's rows
FileDate == [f \in Files |-> getEffectiveDateFromFilename(FileNames[f])]

----------------------------------------------------------------------------
(* The persisted files.  A document is a function from its keys to string  *)
(* values; a provenance file holds AssetMetadata.Columns, a list of        *)
(* ColumnIndex records.                                                    *)

EmptyDoc == [k \in {} |-> ""]

NoAssetFile == [exists |-> FALSE, data |-> EmptyDoc]

NoMetaFile == [exists |-> FALSE, columns |-> <<>>]

\* Every document file holds the JSON object that was last written to it.  A file is
\* truncated between the open and the write of an os.WriteFile that is rewriting it;
\* a file is damaged when its bytes were spoilt from outside the program.
AllReadable == [truncated |-> {}, damaged |-> {}]

\* os.ReadFile and json.Unmarshal of the document file of id give an error
Unreadable(id) == id \in unreadable.truncated \cup unreadable.damaged

ColumnIndex_NoSource(id, columnName, effectiveDate, sourceFile) ==
    [id |-> id, column_name |-> columnName, effective_date |-> effectiveDate,
     source_file |-> ""]

ColumnIndex(id, columnName, effectiveDate, sourceFile) ==
    [id |-> id, column_name |-> columnName, effective_date |-> effectiveDate,
     source_file |-> sourceFile]

\* the index of the first entry of cols for columnName, 0 when there is none
FindColumn(cols, columnName) ==
    LET hits == {i \in 1..Len(cols) : cols[i].column_name = columnName}
    IN  IF hits = {} THEN 0 ELSE CHOOSE i \in hits : \A j \in hits : i <= j

\* the loop of getColumnEffectiveDate over metadata.Columns
ColumnDate(cols, columnName) ==
    LET i == FindColumn(cols, columnName)
    IN  IF i = 0 THEN "" ELSE cols[i].effective_date

IsSentinel_ExactCase(value) == value = "" \/ value = "null" \/ value = "N.A."

\* the skip test of UpdateAssetFromCSVWithDate
IsSentinel(value) == value = "" \/ ToLower(value) = "null" \/ value = "N.A."

ShouldUpdate_TiesReplace(currentEffectiveDate, effectiveDate) ==
    currentEffectiveDate = "" \/ ~StrLess(effectiveDate, currentEffectiveDate)

ShouldUpdate_Always(currentEffectiveDate, effectiveDate) == TRUE

\* the update test of UpdateAssetFromCSVWithDate
ShouldUpdate(currentEffectiveDate, effectiveDate) ==
    currentEffectiveDate = "" \/ StrGreater(effectiveDate, currentEffectiveDate)

\* the modification updateColumnEffectiveDate makes to the loaded metadata.Columns
UpdatedColumns(cols, id, columnName, effectiveDate, sourceFile) ==
    LET i == FindColumn(cols, columnName)
    IN  IF i # 0
        THEN IF StrGreater(effectiveDate, cols[i].effective_date)
             THEN [cols EXCEPT ![i].effective_date = effectiveDate,
                               ![i].source_file = sourceFile]
             ELSE cols
        ELSE Append(cols, ColumnIndex(id, columnName, effectiveDate, sourceFile))

\* addColumnIfNotExists
AddColumn(list, colName) ==
    IF \E i \in 1..Len(list) : list[i] = colName THEN list ELSE Append(list, colName)

----------------------------------------------------------------------------
(* UpdateAssetFromCSVWithDate, one action per step that reads or writes    *)
(* shared state.  LoadOrCreateAsset and SaveAsset each run under the       *)
(* manager's lock from their first line to their last; nothing else in the *)
(* merge holds a lock, so every file operation of the provenance helpers   *)
(* is a step of its own.                                                   *)

IdleFrame == [pc |-> "idle", id |-> "", header |-> <<>>, record |-> <<>>,
              effectiveDate |-> "", sourceFile |-> "", i |-> 0, asset |-> EmptyDoc,
              exists |-> FALSE, meta |-> <<>>, updated |-> FALSE, k |-> 0,
              cols |-> <<>>]

\* the next index of `for i, value := range record` that reaches the update test
NextField(fr, from) ==
    LET live == {n \in from..Len(fr.record) : n <= Len(fr.header) /\ ~IsSentinel(fr.record[n])}
    IN  IF live = {} THEN 0 ELSE CHOOSE n \in live : \A m \in live : n <= m

\* continue the loop after field fr.i, or leave it
Advance(fr) ==
    LET n == NextField(fr, fr.i + 1)
    IN  IF n = 0
        THEN [fr EXCEPT !.pc = "data", !.i = 0, !.exists = FALSE, !.meta = <<>>]
        ELSE [fr EXCEPT !.pc = "getStat", !.i = n, !.exists = FALSE, !.meta = <<>>]

Finish(w, status, changed) ==
    /\ wk' = [wk EXCEPT ![w] = IdleFrame]
    /\ log' = [log EXCEPT ![wk[w].k].status = status, ![wk[w].k].changed = changed]

\* regexp.MatchString for a pattern of letters and digits: the pattern occurs in s
MatchString(pattern, s) == \E i \in 1..Len(s) : HasPrefix(SubSeq(s, i, Len(s)), pattern)

ShouldIncludeID_All(id) == TRUE

\* ShouldIncludeID: no filter is set, or the id matches one of its patterns.  Every
\* pattern of the model compiles as a regular expression.
ShouldIncludeID(id) ==
    \/ Len(idPrefixFilter) = 0
    \/ \E n \in 1..Len(idPrefixFilter) : MatchString(idPrefixFilter[n], id)

\* The call with a record, for an id that passes ShouldIncludeID
CallRecord(w, id, header, record, f) ==
    /\ wk[w].pc = "idle"
    /\ wk' = [wk EXCEPT ![w] = [IdleFrame EXCEPT
                !.pc = "load", !.id = id, !.header = header, !.record = record,
                !.effectiveDate = FileDate[f],
                !.sourceFile = FileNames[f], !.k = Len(log) + 1]]
    /\ log' = Append(log,
                [w |-> w, id |-> id, header |-> header, record |-> record,
                 effectiveDate |-> FileDate[f],
                 sourceFile |-> FileNames[f], status |-> "running", changed |-> FALSE,
                 quiet |-> \A u \in Workers : wk[u].pc = "idle" \/ wk[u].id # id,
                 preAsset |-> assetFile[id], preColumns |-> metaFile[id].columns,
                 damaged |-> id \in unreadable.damaged])

\* The call for a row of file f, whose data cell holds the value of that file
Call(w, id, header, f) == CallRecord(w, id, header, <<id, FileValue[f]>>, f)

\* the call by a caller that is not a worker of LoadFiles
Invoke(w, id, header, f) ==
    /\ Call(w, id, header, f)
    /\ UNCHANGED <<assetFile, metaFile, columns, Data, q, assetIDs, api, legacy, lf, unreadable, pt, idPrefixFilter>>

\* a worker of the pool calls the merge for a row of its file
UpdateAssetFromCSVWithDate(w) ==
    /\ Len(log) < MaxMerges
    /\ \E id \in Ids, header \in Headers, f \in Files :
          Invoke(w, id, header, f)

\* a merge called while no other merge is running
SeqUpdateAssetFromCSVWithDate(w) ==
    /\ Len(log) < MaxSeqMerges
    /\ \A u \in Workers : wk[u].pc = "idle"
    /\ \E id \in Ids, header \in Headers, f \in Files :
          Invoke(w, id, header, f)

\* j.Lock is free: no SaveAsset is between the open and the write of its file
LockFree == unreadable.truncated = {}

\* LoadOrCreateAsset, under j.Lock: the document file is absent, or read and parsed
LoadOrCreateAsset(w) ==
    /\ wk[w].pc = "load"
    /\ LockFree
    /\ ~Unreadable(wk[w].id)
    /\ LET fr == wk[w]
           loaded == IF assetFile[fr.id].exists THEN assetFile[fr.id].data ELSE EmptyDoc
       IN  wk' = [wk EXCEPT ![w] =
                    Advance([fr EXCEPT !.asset = (IdCol :> fr.id) @@ loaded, !.i = 0])]
    /\ UNCHANGED <<assetFile, metaFile, columns, Data, log, q, assetIDs, api, legacy, lf, unreadable, pt, idPrefixFilter>>

\* loadAssetMetadata: os.Stat of the provenance file (in getColumnEffectiveDate)
GetStat(w) ==
    /\ wk[w].pc = "getStat"
    /\ wk' = [wk EXCEPT ![w].pc = "getLoad", ![w].exists = metaFile[wk[w].id].exists]
    /\ UNCHANGED <<assetFile, metaFile, columns, Data, log, q, assetIDs, api, legacy, lf, unreadable, pt, idPrefixFilter>>

\* loadAssetMetadata after its Stat: write an empty provenance file when Stat found
\* none, read the file otherwise
LoadedColumns(w) == IF wk[w].exists THEN metaFile[wk[w].id].columns ELSE <<>>

MetaAfterLoad(w) ==
    IF wk[w].exists THEN metaFile
    ELSE [metaFile EXCEPT ![wk[w].id] = [exists |-> TRUE, columns |-> <<>>]]

\* getColumnEffectiveDate's load and lookup, then the update test and asset[colName] = value
GetColumnEffectiveDate(w) ==
    /\ wk[w].pc = "getLoad"
    /\ LET fr == wk[w]
           colName == fr.header[fr.i]
           currentEffectiveDate == ColumnDate(LoadedColumns(w), colName)
       IN  /\ metaFile' = MetaAfterLoad(w)
           /\ wk' = [wk EXCEPT ![w] =
                       IF ShouldUpdate(currentEffectiveDate, fr.effectiveDate)
                       THEN [fr EXCEPT !.asset = (colName :> fr.record[fr.i]) @@ fr.asset,
                                       !.pc = "updStat", !.exists = FALSE]
                       ELSE Advance(fr)]
    /\ UNCHANGED <<assetFile, columns, Data, log, q, assetIDs, api, legacy, lf, unreadable, pt, idPrefixFilter>>

\* loadAssetMetadata: os.Stat of the provenance file (in updateColumnEffectiveDate)
UpdStat(w) ==
    /\ wk[w].pc = "updStat"
    /\ wk' = [wk EXCEPT ![w].pc = "updLoad", ![w].exists = metaFile[wk[w].id].exists]
    /\ UNCHANGED <<assetFile, metaFile, columns, Data, log, q, assetIDs, api, legacy, lf, unreadable, pt, idPrefixFilter>>

\* updateColumnEffectiveDate's load
UpdLoad(w) ==
    /\ wk[w].pc = "updLoad"
    /\ metaFile' = MetaAfterLoad(w)
    /\ wk' = [wk EXCEPT ![w].pc = "updSave", ![w].meta = LoadedColumns(w), ![w].exists = FALSE]
    /\ UNCHANGED <<assetFile, columns, Data, log, q, assetIDs, api, legacy, lf, unreadable, pt, idPrefixFilter>>

\* updateColumnEffectiveDate's modification and saveAssetMetadata; updated = true
updateColumnEffectiveDate(w) ==
    /\ wk[w].pc = "updSave"
    /\ LET fr == wk[w]
       IN  /\ metaFile' = [metaFile EXCEPT ![fr.id] =
                 [exists |-> TRUE,
                  columns |-> UpdatedColumns(fr.meta, fr.id, fr.header[fr.i],
                                             fr.effectiveDate, fr.sourceFile)]]
           /\ wk' = [wk EXCEPT ![w].pc = "addColumn", ![w].meta = <<>>, ![w].updated = TRUE]
    /\ UNCHANGED <<assetFile, columns, Data, log, q, assetIDs, api, legacy, lf, unreadable, pt, idPrefixFilter>>

\* addColumnIfNotExists(colName), which holds no lock: the loop over j.columns.
\* The column is present: return, and the next field.  It is absent: go on to append.
addColumnIfNotExists(w) ==
    /\ wk[w].pc = "addColumn"
    /\ wk' = [wk EXCEPT ![w] =
                IF AddColumn(columns, wk[w].header[wk[w].i]) = columns
                THEN Advance(wk[w])
                ELSE [wk[w] EXCEPT !.pc = "appendRead"]]
    /\ UNCHANGED <<assetFile, metaFile, columns, Data, log, q, assetIDs, api, legacy, lf, unreadable, pt, idPrefixFilter>>

\* j.columns = append(j.columns, colName): the read of the slice j.columns
AppendRead(w) ==
    /\ wk[w].pc = "appendRead"
    /\ wk' = [wk EXCEPT ![w].pc = "appendWrite", ![w].cols = columns]
    /\ UNCHANGED <<assetFile, metaFile, columns, Data, log, q, assetIDs, api, legacy, lf, unreadable, pt, idPrefixFilter>>

\* j.columns = append(j.columns, colName): the element is stored after the slice
\* that was read and the new slice is assigned to j.columns; then the next field
AppendWrite(w) ==
    /\ wk[w].pc = "appendWrite"
    /\ columns' = Append(wk[w].cols, wk[w].header[wk[w].i])
    /\ wk' = [wk EXCEPT ![w] = Advance([wk[w] EXCEPT !.cols = <<>>])]
    /\ UNCHANGED <<assetFile, metaFile, Data, log, q, assetIDs, api, legacy, lf, unreadable, pt, idPrefixFilter>>

\* j.Data[id] = asset under j.Lock; return (false, nil) when nothing was updated
SetData(w) ==
    /\ wk[w].pc = "data"
    /\ Data' = (wk[w].id :> wk[w].asset) @@ Data
    /\ IF wk[w].updated
       THEN /\ wk' = [wk EXCEPT ![w].pc = "save"]
            /\ UNCHANGED log
       ELSE Finish(w, "ok", FALSE)
    /\ UNCHANGED <<assetFile, metaFile, columns, q, assetIDs, api, legacy, lf, unreadable, pt, idPrefixFilter>>

\* SaveAsset, under j.Lock: os.WriteFile succeeds; return (true, nil).  One step,
\* for the runs in which every reader of a document file takes j.Lock.
SaveAsset(w) ==
    /\ wk[w].pc = "save"
    /\ LockFree
    /\ assetFile' = [assetFile EXCEPT ![wk[w].id] = [exists |-> TRUE, data |-> wk[w].asset]]
    /\ unreadable' = [unreadable EXCEPT !.damaged = @ \ {wk[w].id}]
    /\ Finish(w, "ok", TRUE)
    /\ UNCHANGED <<metaFile, columns, Data, q, assetIDs, api, legacy, lf, pt, idPrefixFilter>>

\* SaveAsset next to a reader that takes no lock.  os.WriteFile opens the file with
\* O_TRUNC: from here to the write the file is empty.  j.Lock is held.
SaveAssetTruncate(w) ==
    /\ wk[w].pc = "save"
    /\ LockFree
    /\ wk' = [wk EXCEPT ![w].pc = "saveWrite"]
    /\ assetFile' = [assetFile EXCEPT ![wk[w].id].exists = TRUE]
    /\ unreadable' = [unreadable EXCEPT !.truncated = @ \cup {wk[w].id}]
    /\ UNCHANGED <<metaFile, columns, Data, log, q, assetIDs, api, legacy, lf, pt, idPrefixFilter>>

\* os.WriteFile writes the document and closes the file; return (true, nil)
SaveAssetWrite(w) ==
    /\ wk[w].pc = "saveWrite"
    /\ assetFile' = [assetFile EXCEPT ![wk[w].id] = [exists |-> TRUE, data |-> wk[w].asset]]
    /\ unreadable' = [truncated |-> unreadable.truncated \ {wk[w].id},
                      damaged |-> unreadable.damaged \ {wk[w].id}]
    /\ Finish(w, "ok", TRUE)
    /\ UNCHANGED <<metaFile, columns, Data, q, assetIDs, api, legacy, lf, pt, idPrefixFilter>>

\* LoadOrCreateAsset, under j.Lock: the document file exists and cannot be read or
\* parsed; UpdateAssetFromCSVWithDate returns (false, err)
LoadOrCreateAssetFails(w) ==
    /\ wk[w].pc = "load"
    /\ LockFree
    /\ assetFile[wk[w].id].exists
    /\ Unreadable(wk[w].id)
    /\ Finish(w, "err", FALSE)
    /\ UNCHANGED <<assetFile, metaFile, columns, Data, q, assetIDs, api, legacy, lf, unreadable, pt, idPrefixFilter>>

\* SaveAsset: os.WriteFile fails before it writes; return (false, err)
SaveAssetFails(w) ==
    /\ wk[w].pc = "save"
    /\ Finish(w, "err", FALSE)
    /\ UNCHANGED <<assetFile, metaFile, columns, Data, q, assetIDs, api, legacy, lf, unreadable, pt, idPrefixFilter>>

\* the steps of the merge before it saves the document
MergeBody(w) ==
    \/ LoadOrCreateAsset(w)
    \/ GetStat(w)
    \/ GetColumnEffectiveDate(w)
    \/ UpdStat(w)
    \/ UpdLoad(w)
    \/ updateColumnEffectiveDate(w)
    \/ addColumnIfNotExists(w)
    \/ AppendRead(w)
    \/ AppendWrite(w)
    \/ SetData(w)

MergeStep(w) ==
    \/ MergeBody(w)
    \/ SaveAsset(w)

----------------------------------------------------------------------------
(* ParseSQL (sql_parser.go).  The strings of the model hold no whitespace  *)
(* other than the space.                                                   *)

RECURSIVE TrimLeft(_)
TrimLeft(s) == IF Len(s) > 0 /\ CharAt(s, 1) = " " THEN TrimLeft(SubSeq(s, 2, Len(s))) ELSE s

RECURSIVE TrimRight(_)
TrimRight(s) ==
    IF Len(s) > 0 /\ CharAt(s, Len(s)) = " " THEN TrimRight(SubSeq(s, 1, Len(s) - 1)) ELSE s

\* strings.TrimSpace
TrimSpace(s) == TrimRight(TrimLeft(s))

\* regexp \s+ ReplaceAllString(query, " ")
\* of the characters lo..hi of s, those that are not a space following a space
RECURSIVE CollapseFrom(_, _, _)
CollapseFrom(s, lo, hi) ==
    IF lo > hi THEN ""
    ELSE IF lo = hi
    THEN (IF lo > 1 /\ CharAt(s, lo) = " " /\ CharAt(s, lo - 1) = " " THEN "" ELSE CharAt(s, lo))
    ELSE CollapseFrom(s, lo, (lo + hi) \div 2) \o CollapseFrom(s, (lo + hi) \div 2 + 1, hi)

CollapseSpaces(s) == CollapseFrom(s, 1, Len(s))

\* t occurs in s at position p
StartsAt(s, p, t) == p + Len(t) - 1 <= Len(s) /\ SubSeq(s, p, p + Len(t) - 1) = t

\* strings.Index, counted from 1; 0 when sep does not occur
IndexOf(s, sep) ==
    LET at == {p \in 1..Len(s) : StartsAt(s, p, sep)}
    IN  IF at = {} THEN 0 ELSE CHOOSE p \in at : \A r \in at : p <= r

\* strings.Split, for a separator that is not empty
RECURSIVE Split(_, _)
Split(s, sep) ==
    LET p == IndexOf(s, sep)
    IN  IF p = 0 THEN <<s>>
        ELSE <<SubSeq(s, 1, p - 1)>> \o Split(SubSeq(s, p + Len(sep), Len(s)), sep)

\* strings.TrimPrefix
TrimPrefix(s, p) == IF HasPrefix(s, p) THEN SubSeq(s, Len(p) + 1, Len(s)) ELSE s

\* The alternation of operatorRegex, (=|>|<|>=|<=|!=), in the order it is written.
OperatorAlternatives == <<"=", ">", "<", ">=", "<=", "!=">>

\* What the alternation matches at position p: Go's regexp takes the first
\* alternative that lets the whole expression match (leftmost-first), and the \s*
\* after the group matches anything; "" when no alternative matches at p.
OperatorAt(s, p) ==
    LET hits == {n \in 1..Len(OperatorAlternatives) :
                    StartsAt(s, p, OperatorAlternatives[n])}
    IN  IF hits = {} THEN ""
        ELSE OperatorAlternatives[CHOOSE n \in hits : \A m \in hits : n <= m]

\* the first position from p on that holds no space (Len(s) + 1 at the end)
RECURSIVE SkipSpaces(_, _)
SkipSpaces(s, p) == IF p <= Len(s) /\ CharAt(s, p) = " " THEN SkipSpaces(s, p + 1) ELSE p

\* operatorRegex \s*(=|>|<|>=|<=|!=)\s* on the WHERE clause: the leftmost match, as
\* [found, start, operator, end) ; end is the first position after the match
OperatorMatch(s) ==
    LET starts == {p \in 1..Len(s) : OperatorAt(s, SkipSpaces(s, p)) # ""}
    IN  IF starts = {} THEN [found |-> FALSE, start |-> 0, operator |-> "", end |-> 0]
        ELSE LET p == CHOOSE x \in starts : \A y \in starts : x <= y
                 o == SkipSpaces(s, p)
                 op == OperatorAt(s, o)
             IN  [found |-> TRUE, start |-> p, operator |-> op,
                  end |-> SkipSpaces(s, o + Len(op))]

NoQuery == [SelectColumns |-> <<>>, FromTable |-> "", WhereColumn |-> "",
            WhereOperator |-> "", WhereValue |-> "", HasWhere |-> FALSE]

ParseFailure(msg) == [err |-> msg, query |-> NoQuery]

\* the WHERE branch of ParseSQL, for the part of the query before it parsed into base
ParseWhere(base, whereClause) ==
    LET m == OperatorMatch(whereClause)
        whereColumn == TrimSpace(SubSeq(whereClause, 1, m.start - 1))
        whereValue == TrimSpace(SubSeq(whereClause, m.end, Len(whereClause)))
    IN  IF ~m.found
        THEN ParseFailure("WHERE clause must contain a valid operator (=, >, <, >=, <=, !=)")
        ELSE IF HasPrefix(whereValue, "'") /\ HasSuffix(whereValue, "'")
        THEN IF Len(whereValue) < 2
             THEN ParseFailure("panic: slice bounds out of range")
             ELSE [err |-> "",
                   query |-> [base EXCEPT !.HasWhere = TRUE, !.WhereColumn = whereColumn,
                                          !.WhereOperator = m.operator,
                                          !.WhereValue = SubSeq(whereValue, 2, Len(whereValue) - 1)]]
        ELSE [err |-> "",
              query |-> [base EXCEPT !.HasWhere = TRUE, !.WhereColumn = whereColumn,
                                     !.WhereOperator = m.operator, !.WhereValue = whereValue]]

ParseSQL(text) ==
    LET query == CollapseSpaces(TrimSpace(text))
        fromParts == Split(ToUpper(query), " FROM ")
        selectPart == TrimPrefix(fromParts[1], "SELECT ")
        rawColumns == Split(selectPart, ",")
        selectColumns == [n \in 1..Len(rawColumns) |-> TrimSpace(rawColumns[n])]
        whereParts == Split(fromParts[2], " WHERE ")
        base == [NoQuery EXCEPT !.SelectColumns = selectColumns,
                                !.FromTable = TrimSpace(whereParts[1])]
    IN  IF ~HasPrefix(ToUpper(query), "SELECT ")
        THEN ParseFailure("query must start with SELECT")
        ELSE IF Len(fromParts) # 2
        THEN ParseFailure("query must contain FROM clause")
        ELSE IF Len(whereParts) > 2
        THEN ParseFailure("query contains multiple WHERE clauses")
        ELSE IF Len(whereParts) = 2
        THEN ParseWhere(base, whereParts[2])
        ELSE [err |-> "", query |-> base]

----------------------------------------------------------------------------
(* ExecuteSQLQuery and executeSQLQueryScan (json_asset_manager.go).        *)

\* the switch on query.WhereOperator
Matches(operator, whereValue, literal) ==
    CASE operator = "="  -> whereValue = literal
      [] operator = ">"  -> StrGreater(whereValue, literal)
      [] operator = "<"  -> StrLess(whereValue, literal)
      [] operator = ">=" -> ~StrLess(whereValue, literal)
      [] operator = "<=" -> ~StrGreater(whereValue, literal)
      [] operator = "!=" -> whereValue # literal
      [] OTHER -> FALSE

\* asset[col]: the keys of the document the name col selects
ResolveColumn(asset, col) == {k \in DOMAIN asset : k = col}

\* the selectedAsset loop: the requested columns that exist in the document
SelectedAsset(asset, selectColumns) ==
    LET keys == UNION {ResolveColumn(asset, selectColumns[n]) : n \in 1..Len(selectColumns)}
    IN  [k \in keys |-> asset[k]]

RowsOf_AbsentColumnDiffers(asset, query) ==
    IF query.HasWhere /\ query.WhereColumn \notin DOMAIN asset /\ query.WhereOperator # "!="
    THEN <<>>
    ELSE IF query.HasWhere /\ query.WhereColumn \in DOMAIN asset
            /\ ~Matches(query.WhereOperator, asset[query.WhereColumn], query.WhereValue)
    THEN <<>>
    ELSE IF query.SelectColumns[1] = "*" THEN <<asset>>
    ELSE <<SelectedAsset(asset, query.SelectColumns)>>

\* the rows one walked document file adds to results
RowsOf(asset, query) ==
    LET whereKeys == ResolveColumn(asset, query.WhereColumn)
    IN  IF query.HasWhere /\ whereKeys = {} THEN <<>>
        ELSE IF query.HasWhere
                /\ ~Matches(query.WhereOperator, asset[CHOOSE k \in whereKeys : TRUE],
                            query.WhereValue)
        THEN <<>>
        ELSE IF query.SelectColumns[1] = "*" THEN <<asset>>
        ELSE <<SelectedAsset(asset, query.SelectColumns)>>

\* The identifiers of the store, in the order filepath.Walk meets their trie
\* directories (the lower-cased identifiers in byte order).
StoreIds == Ids \cup {"TSLA"}

RECURSIVE WalkOrder(_)
WalkOrder(ids) ==
    IF ids = {} THEN <<>>
    ELSE LET first == CHOOSE x \in ids : \A y \in ids : y = x \/ StrLess(ToLower(x), ToLower(y))
         IN  <<first>> \o WalkOrder(ids \ {first})

\* The members of the JSON object in a document file, each with the kind of its
\* value: a map[string]string marshals to strings
DocumentJSON(doc) == [k \in DOMAIN doc |-> "string"]

\* The members of the JSON object in a provenance file: AssetMetadata marshals to
\* "id", "columns" and "updated_at".  Columns is never a nil slice (it is
\* []ColumnIndex{}, the entries of an id, or what json.Unmarshal made of an array),
\* so "columns" is an array, not null.
MetadataJSON == [id |-> "string", columns |-> "array", updated_at |-> "string"]

UnmarshalFails_Never(members) == FALSE

\* json.Unmarshal(data, &asset) for asset a map[string]string returns an error when
\* a member of the object is neither a string nor null
UnmarshalFails(members) == \E k \in DOMAIN members : members[k] \notin {"string", "null"}

\* what a provenance file would unmarshal to, were its members all strings
MetadataAsMap(id) == [id |-> id, updated_at |-> "2026-11-01T10:00:00Z"]

\* the walk function on the document file of id: the rows it appends to results;
\* a file that cannot be read or parsed is logged and skipped
DocumentRows(id, query) ==
    IF assetFile[id].exists /\ ~Unreadable(id) /\ ~UnmarshalFails(DocumentJSON(assetFile[id].data))
    THEN RowsOf(assetFile[id].data, query)
    ELSE <<>>

\* the walk function on the provenance file of id, whose name ends in .json too
MetadataRows(id, query) ==
    IF metaFile[id].exists /\ ~UnmarshalFails(MetadataJSON)
    THEN RowsOf(MetadataAsMap(id), query)
    ELSE <<>>

\* The *.json files the walk reads: <id>.json and then <id>.metadata.json of each
\* identifier, in the order of their names.
RECURSIVE ScanFiles(_, _)
ScanFiles(order, query) ==
    IF order = <<>> THEN <<>>
    ELSE DocumentRows(Head(order), query) \o MetadataRows(Head(order), query)
         \o ScanFiles(Tail(order), query)

executeSQLQueryScanResult(query) == ScanFiles(WalkOrder(StoreIds), query)

\* the identifiers of the document files that added a row to results, in walk order
RECURSIVE ScanHits(_, _)
ScanHits(order, query) ==
    IF order = <<>> THEN <<>>
    ELSE (IF /\ assetFile[Head(order)].exists
             /\ ~Unreadable(Head(order))
             /\ RowsOf(assetFile[Head(order)].data, query) # <<>>
          THEN <<Head(order)>> ELSE <<>>)
         \o ScanHits(Tail(order), query)

KnownTable_Any(table) == TRUE

\* the table test of ExecuteSQLQuery
KnownTable(table) == table = "BB_ASSETS"

\* The query texts the model executes: SELECT <select> FROM <table> with an optional
\* WHERE <col> <op> <literal>, and some texts outside that form.
NoWhere == [has |-> FALSE, col |-> "", op |-> "", lit |-> ""]

QuerySelects == {"*", "Company", "company", "ID_BB_GLOBAL", "Company, Revenue"}

QueryTables == {"BB_ASSETS", "OTHER_TABLE"}

QueryWheres ==
    {NoWhere} \cup
    [has : {TRUE}, col : {"Revenue", "revenue", "ID_BB_GLOBAL", "Industry", "PX_LAST", "SECTOR"},
     op : {"=", ">", "<", ">=", "<=", "!="}, lit : {"300", "365.8", "AAPL", "'Technology'"}]

QueryInputs == [select : QuerySelects, table : QueryTables, where : QueryWheres]

QueryText(in) ==
    "SELECT " \o in.select \o " FROM " \o in.table \o
    (IF in.where.has
     THEN " WHERE " \o in.where.col \o " " \o in.where.op \o " " \o in.where.lit
     ELSE "")

OtherTexts == {"select * from BB_ASSETS", "SELEC * FROM BB_ASSETS", "SELECT * BB_ASSETS",
               "SELECT * FROM BB_ASSETS WHERE Revenue",
               "SELECT * FROM BB_ASSETS WHERE Revenue = 300 WHERE Industry = 'Technology'",
               "SELECT * FROM BB_ASSETS WHERE Revenue > 200 AND Industry = 'Technology'",
               "SELECT * FROM BB_ASSETS WHERE SECTOR = 'Technology' OR SECTOR = 'Retail'",
               "SELECT * FROM BB_ASSETS WHERE PX_LAST > 100 AND PX_LAST < 900",
               "  SELECT  Company  FROM  BB_ASSETS  WHERE  Revenue>300 "}

NoInput == [select |-> "", table |-> "", where |-> NoWhere]

\* the body of a POST /api/query request: the fields of QueryRequest
NoRequest == [given |-> FALSE, columns |-> <<>>, where |-> "", limit |-> 0, offset |-> 0]

Requests ==
    [given : {TRUE},
     columns : {<<>>, <<"*">>, <<"ID_BB_GLOBAL", "Company", "Revenue">>, <<"company">>},
     where : {"", "PX_LAST > 300"},
     limit : {0, 1},
     offset : {0, 1}]

\* strings.Join
RECURSIVE Join(_, _)
Join(parts, sep) ==
    IF parts = <<>> THEN ""
    ELSE IF Len(parts) = 1 THEN parts[1]
    ELSE parts[1] \o sep \o Join(Tail(parts), sep)

\* the expression handleQuery formats for one requested column
ColumnPart(col) ==
    "CASE WHEN '" \o col \o "' ILIKE 'id_bb_global' THEN ID_BB_GLOBAL ELSE "
    \o "(SELECT CASE WHEN COUNT(" \o "*" \o ") > 0 THEN MAX("
    \o "CASE WHEN LOWER(column_name) = LOWER('" \o col \o "') THEN column_name END)"
    \o " ELSE '" \o col \o "' END FROM pragma_table_info('data_matrix') WHERE LOWER(name) = LOWER('"
    \o col \o "')) END"

\* columnList of handleQuery
ColumnList(cols) ==
    LET given == IF cols = <<>> THEN <<"*">> ELSE cols
    IN  IF Len(given) = 1 /\ given[1] = "*" THEN "*"
        ELSE Join([n \in 1..Len(given) |-> ColumnPart(given[n])], ", ")

\* sqlQuery of handleQuery
RequestSQL(req) ==
    "SELECT " \o ColumnList(req.columns) \o " FROM BB_ASSETS"
    \o (IF req.where # "" THEN " WHERE " \o req.where ELSE "")

IdleQuery == [pc |-> "idle", sql |-> "", in |-> NoInput, parsed |-> ParseFailure(""),
              err |-> "", results |-> <<>>, scanned |-> FALSE, hits |-> <<>>,
              req |-> NoRequest, todo |-> <<>>, atStart |-> {}, walked |-> FALSE]

\* ExecuteSQLQuery(sqlQuery): the call of ParseSQL
CallParseSQL(in, sql) ==
    /\ q.pc = "idle"
    /\ q' = [q EXCEPT !.pc = "parsed", !.sql = sql, !.in = in, !.parsed = ParseSQL(sql)]
    /\ UNCHANGED <<assetFile, metaFile, columns, Data, wk, log, assetIDs, api, legacy, lf, unreadable, pt, idPrefixFilter>>

ExecuteSQLQuery ==
    \/ \E in \in QueryInputs : CallParseSQL(in, QueryText(in))
    \/ \E sql \in OtherTexts : CallParseSQL(NoInput, sql)

\* POST /api/query: handleQuery builds the query text and calls ExecuteSQLQuery
handleQuery ==
    /\ q.pc = "idle"
    /\ \E req \in Requests :
          q' = [q EXCEPT !.pc = "parsed", !.sql = RequestSQL(req), !.req = req,
                         !.parsed = ParseSQL(RequestSQL(req))]
    /\ UNCHANGED <<assetFile, metaFile, columns, Data, wk, log, assetIDs, api, legacy, lf, unreadable, pt, idPrefixFilter>>

\* the status handleQuery answers with
QueryStatus(err) == IF err = "" THEN 200 ELSE 500

\* the QueryResponse handleQuery encodes from result, the rows ExecuteSQLQuery returned
QueryResponse(result) == [Data |-> result, Count |-> Len(result), Total |-> Len(result)]

\* ExecuteSQLQuery: ParseSQL returned an error
QueryParseError ==
    /\ q.pc = "parsed"
    /\ q.parsed.err # ""
    /\ q' = [q EXCEPT !.pc = "done", !.err = "error parsing SQL query: " \o q.parsed.err]
    /\ UNCHANGED <<assetFile, metaFile, columns, Data, wk, log, assetIDs, api, legacy, lf, unreadable, pt, idPrefixFilter>>

\* ExecuteSQLQuery: the table is not BB_ASSETS
QueryUnknownTable ==
    /\ q.pc = "parsed"
    /\ q.parsed.err = ""
    /\ ~KnownTable(q.parsed.query.FromTable)
    /\ q' = [q EXCEPT !.pc = "done", !.err = "unknown table: " \o q.parsed.query.FromTable]
    /\ UNCHANGED <<assetFile, metaFile, columns, Data, wk, log, assetIDs, api, legacy, lf, unreadable, pt, idPrefixFilter>>

\* ExecuteSQLQuery: return j.executeSQLQueryScan(query)
executeSQLQueryScan ==
    /\ q.pc = "parsed"
    /\ q.parsed.err = ""
    /\ KnownTable(q.parsed.query.FromTable)
    /\ q' = [q EXCEPT !.pc = "done", !.results = executeSQLQueryScanResult(q.parsed.query),
                      !.scanned = TRUE, !.hits = ScanHits(WalkOrder(StoreIds), q.parsed.query)]
    /\ UNCHANGED <<assetFile, metaFile, columns, Data, wk, log, assetIDs, api, legacy, lf, unreadable, pt, idPrefixFilter>>

----------------------------------------------------------------------------
(* The scan file by file, next to a merge: executeSQLQueryScan takes no    *)
(* lock, so each os.ReadFile of its walk is a step between the steps of    *)
(* the merge.                                                              *)

MaxScanMerges == 1
MaxDamaged == 1

\* the queries of these runs: no WHERE clause, so every document gives a row
ScanTexts == {"SELECT * FROM BB_ASSETS", "SELECT ID_BB_GLOBAL, Company FROM BB_ASSETS"}

ScanQuery == \E sql \in ScanTexts : CallParseSQL(NoInput, sql)

\* the headers of the rows merged in these runs: one names a column new to the catalog
ScanHeaders == Headers \cup {<<IdCol, "Rating">>}

\* a merge is called while a query may be running
ScanUpdateAssetFromCSVWithDate(w) ==
    /\ Len(log) < MaxScanMerges
    /\ \A u \in Workers : wk[u].pc = "idle"
    /\ \E id \in Ids, header \in ScanHeaders, f \in Files :
          Invoke(w, id, header, f)

\* executeSQLQueryScan: filepath.Walk starts
WalkBegin ==
    /\ q.pc = "parsed"
    /\ q.parsed.err = ""
    /\ KnownTable(q.parsed.query.FromTable)
    /\ q' = [q EXCEPT !.pc = "walk", !.todo = WalkOrder(StoreIds),
                      !.atStart = {id \in StoreIds : assetFile[id].exists /\ ~Unreadable(id)}]
    /\ UNCHANGED <<assetFile, metaFile, columns, Data, wk, log, assetIDs, api, legacy, lf, unreadable, pt, idPrefixFilter>>

\* the walk function on the next document file: os.ReadFile, json.Unmarshal, and the
\* row appended to results; a file that does not parse is logged and skipped
WalkFile ==
    /\ q.pc = "walk"
    /\ q.todo # <<>>
    /\ q' = [q EXCEPT !.todo = Tail(q.todo),
                      !.results = q.results \o ScanFiles(<<Head(q.todo)>>, q.parsed.query),
                      !.hits = q.hits \o ScanHits(<<Head(q.todo)>>, q.parsed.query)]
    /\ UNCHANGED <<assetFile, metaFile, columns, Data, wk, log, assetIDs, api, legacy, lf, unreadable, pt, idPrefixFilter>>

\* filepath.Walk has returned; return results, nil
WalkEnd ==
    /\ q.pc = "walk"
    /\ q.todo = <<>>
    /\ q' = [q EXCEPT !.pc = "done", !.scanned = TRUE, !.walked = TRUE]
    /\ UNCHANGED <<assetFile, metaFile, columns, Data, wk, log, assetIDs, api, legacy, lf, unreadable, pt, idPrefixFilter>>

\* the bytes of a document file are spoilt from outside, while no merge is running
Damage ==
    /\ \A w \in Workers : wk[w].pc = "idle"
    /\ Cardinality(unreadable.damaged) < MaxDamaged
    /\ \E id \in {d \in StoreIds : assetFile[d].exists} \ unreadable.damaged :
          unreadable' = [unreadable EXCEPT !.damaged = @ \cup {id}]
    /\ UNCHANGED <<assetFile, metaFile, columns, Data, wk, log, q, assetIDs, api, legacy, lf, pt, idPrefixFilter>>

----------------------------------------------------------------------------
(* The rest of the store's interface: construction, retrieval, statistics. *)

\* no asset_index.json in the data directory
NoLegacy == [state |-> "absent", entries |-> <<>>]

MaxStoreMerges == 1
MaxCalls == 3

NoDoc == [given |-> FALSE, doc |-> EmptyDoc]

\* An error value: its dynamic type and its message.  fmt.Errorf without %w makes a
\* plain error string; a failed system call makes a *PathError around an errno.
NoError == [type |-> "", msg |-> ""]
Errorf(msg) == [type |-> "errorString", msg |-> msg]

IsNotExist_AnyError(err) == err # NoError

\* os.IsNotExist: the error is a system error for a missing file
IsNotExist(err) == err.type = "PathError" /\ err.msg = "no such file or directory"

\* the record of a call: its arguments, what it returned, and how many calls were made
IdleCall == [op |-> "", id |-> "", err |-> NoError, status |-> 0, out |-> EmptyDoc,
             put |-> NoDoc, at |-> 0, n |-> 0, asset_count |-> 0, column_count |-> 0,
             before |-> <<>>, found |-> FALSE, path |-> "", header |-> <<>>, date |-> ""]

\* the calls are made while no merge is running
MayCall == api.n < MaxCalls /\ \A w \in Workers : wk[w].pc = "idle"

\* the identifiers filepath.Walk finds a document file for
DocIds == {id \in StoreIds : assetFile[id].exists}

\* colMap of scanExistingAssets when the provenance files are meta: the column names
\* of the provenance files of DocIds
ScannedColumnsOf(meta) ==
    UNION {{meta[id].columns[n].column_name : n \in 1..Len(meta[id].columns)} :
              id \in DocIds}

ScannedColumns == ScannedColumnsOf(metaFile)

\* the orders in which `for col := range colMap` can meet the keys of the map
RangeOrders(S) ==
    {o \in [1..Cardinality(S) -> S] : \A a, b \in 1..Cardinality(S) : a # b => o[a] # o[b]}

\* scanExistingAssets, on provenance files meta and a manager whose catalog is cols and
\* whose cache is ids: loadAssetMetadata writes an empty provenance file for a
\* document that has none
scanExistingAssets(meta, cols, ids, order) ==
    /\ order \in RangeOrders(ScannedColumnsOf(meta))
    /\ assetIDs' = ids \cup DocIds
    /\ metaFile' = [id \in StoreIds |->
                      IF id \in DocIds /\ ~meta[id].exists
                      THEN [exists |-> TRUE, columns |-> <<>>] ELSE meta[id]]
    /\ columns' = cols \o order

\* assetEntries of migrateFromLegacyIndex: the entries of one id, in their order
EntriesOf(entries, id) == SelectSeq(entries, LAMBDA e : e.id = id)

RenameLegacy_Keep(l) == l

\* os.Rename(indexFilePath, indexFilePath + ".migrated")
RenameLegacy(l) == [l EXCEPT !.state = "migrated"]

\* migrateFromLegacyIndex: the provenance files and the legacy index file it leaves.
\* When asset_index.json exists, each id it names gets a provenance file holding that
\* id's entries, whatever the file held before, and the index file is renamed.
migrateFromLegacyIndex ==
    IF legacy.state # "present"
    THEN [meta |-> metaFile, legacy |-> legacy]
    ELSE [meta |-> [id \in StoreIds |->
                      IF EntriesOf(legacy.entries, id) # <<>>
                      THEN [exists |-> TRUE, columns |-> EntriesOf(legacy.entries, id)]
                      ELSE metaFile[id]],
          legacy |-> RenameLegacy(legacy)]

\* NewJSONAssetManager on the data directory (a start of the process):
\* migrateFromLegacyIndex, then scanExistingAssets
NewJSONAssetManager ==
    /\ MayCall
    /\ \E order \in RangeOrders(ScannedColumnsOf(migrateFromLegacyIndex.meta)) :
          scanExistingAssets(migrateFromLegacyIndex.meta, <<>>, {}, order)
    /\ legacy' = migrateFromLegacyIndex.legacy
    /\ Data' = EmptyDoc
    /\ api' = [IdleCall EXCEPT !.op = "NewJSONAssetManager", !.n = api.n + 1,
                               !.before = columns, !.at = Len(log)]
    /\ UNCHANGED <<assetFile, wk, log, q, lf, unreadable, pt, idPrefixFilter>>

\* loadData with skipFileLoading, which NewDataMatrix calls on the manager it has just
\* constructed: scanExistingAssets once more
loadData ==
    /\ MayCall
    /\ api.op \in {"", "NewJSONAssetManager"}
    /\ api.at = Len(log)
    /\ \E order \in RangeOrders(ScannedColumns) :
          scanExistingAssets(metaFile, columns, assetIDs, order)
    /\ api' = [IdleCall EXCEPT !.op = "loadData", !.n = api.n + 1, !.before = columns,
                               !.at = Len(log)]
    /\ UNCHANGED <<assetFile, Data, wk, log, q, legacy, lf, unreadable, pt, idPrefixFilter>>

\* the loop of LoadCSVFile over the header, by one worker on its own
RECURSIVE AddColumns(_, _)
AddColumns(list, header) ==
    IF header = <<>> THEN list ELSE AddColumns(AddColumn(list, Head(header)), Tail(header))

\* the paths LoadCSVFile is called with
LoadPaths == {"companies_20240101.csv", "data/20231231/companies_20240101.csv",
              "companies.csv", "x_99999999_20240101.csv"}

\* the header rows of the files: with the identifier column, and without it
FileHeaders == Headers \cup {<<"Name", "Value">>}

IdIndex_Last(header) ==
    LET at == {n \in 1..Len(header) : header[n] = IdCol}
    IN  IF at = {} THEN 0 ELSE CHOOSE n \in at : \A m \in at : n >= m

\* idIndex of LoadCSVFile: the first position of ID_BB_GLOBAL in the header, 0 for none
IdIndex(header) ==
    LET at == {n \in 1..Len(header) : header[n] = IdCol}
    IN  IF at = {} THEN 0 ELSE CHOOSE n \in at : \A m \in at : n <= m

HeaderColumns_NoCheck(list, header) == AddColumns(list, header)

\* the catalog after LoadCSVFile read the header: a file without ID_BB_GLOBAL is
\* skipped before any column is added
HeaderColumns(list, header) ==
    IF IdIndex(header) = 0 THEN list ELSE AddColumns(list, header)

\* LoadCSVFile up to its first row: the effective date is taken from the path, and a
\* header with ID_BB_GLOBAL enters the catalog.  The rows of the file, if it has any,
\* are merged by UpdateAssetFromCSVWithDate; a file without ID_BB_GLOBAL returns nil
\* here.
LoadCSVFile ==
    /\ MayCall
    /\ \E path \in LoadPaths, header \in FileHeaders :
          /\ columns' = HeaderColumns(columns, header)
          /\ api' = [IdleCall EXCEPT !.op = "LoadCSVFile", !.n = api.n + 1,
                                     !.before = columns, !.at = Len(log),
                                     !.path = path, !.header = header,
                                     !.date = getEffectiveDateFromFilename(path)]
    /\ UNCHANGED <<assetFile, metaFile, Data, wk, log, q, assetIDs, legacy, lf, unreadable, pt, idPrefixFilter>>

\* GetIndexInfo
GetIndexInfo ==
    /\ MayCall
    /\ api' = [IdleCall EXCEPT !.op = "GetIndexInfo", !.n = api.n + 1, !.at = Len(log),
                               !.asset_count = Cardinality(assetIDs),
                               !.column_count = Len(columns)]
    /\ UNCHANGED <<assetFile, metaFile, columns, Data, wk, log, q, assetIDs, legacy, lf, unreadable, pt, idPrefixFilter>>

\* the documents handed to SaveAsset by a caller other than the merge
PutDocs(id) == {[Company |-> "Apple Inc."], [ID_BB_GLOBAL |-> id, Company |-> "Apple Inc."]}

\* SaveAsset(id, asset) called on its own: the document is written as it is given
SaveAssetCall ==
    /\ MayCall
    /\ \E id \in Ids : \E doc \in PutDocs(id) :
          /\ assetFile' = [assetFile EXCEPT ![id] = [exists |-> TRUE, data |-> doc]]
          /\ api' = [IdleCall EXCEPT !.op = "SaveAsset", !.id = id, !.n = api.n + 1,
                                     !.put = [given |-> TRUE, doc |-> doc], !.at = Len(log)]
    /\ UNCHANGED <<metaFile, columns, Data, wk, log, q, assetIDs, legacy, lf, unreadable, pt, idPrefixFilter>>

\* GetAsset(id)
GetAsset(id) ==
    IF assetFile[id].exists
    THEN [err |-> NoError, asset |-> assetFile[id].data]
    ELSE [err |-> Errorf("asset not found for ID " \o id), asset |-> EmptyDoc]

\* the status handleGetAsset answers with
GetAssetStatus(err) ==
    IF err = NoError THEN 200 ELSE IF IsNotExist(err) THEN 404 ELSE 500

\* GET /api/asset/{id}: handleGetAsset and its call of GetAsset.  The record keeps
\* the document of a SaveAsset(id, ...) that was the call just before.
handleGetAsset ==
    /\ MayCall
    /\ \E id \in StoreIds :
          LET got == GetAsset(id)
          IN  api' = [IdleCall EXCEPT
                        !.op = "GetAsset", !.id = id, !.n = api.n + 1, !.at = Len(log),
                        !.err = got.err, !.out = got.asset, !.found = assetFile[id].exists,
                        !.status = GetAssetStatus(got.err),
                        !.put = IF api.op = "SaveAsset" /\ api.id = id /\ api.at = Len(log)
                                THEN api.put ELSE NoDoc]
    /\ UNCHANGED <<assetFile, metaFile, columns, Data, wk, log, q, assetIDs, legacy, lf, unreadable, pt, idPrefixFilter>>

\* a merge called while no other merge is running, in the life of one store
StoreUpdateAssetFromCSVWithDate(w) ==
    /\ Len(log) < MaxStoreMerges
    /\ \A u \in Workers : wk[u].pc = "idle"
    /\ \E id \in Ids, header \in Headers, f \in Files :
          Invoke(w, id, header, f)

----------------------------------------------------------------------------
(* LoadFiles and its pool of workers, each running LoadCSVFile on the      *)
(* paths it receives from the jobs channel.                                *)

\* the longest batch LoadFiles is called with
MaxBatch == 2

\* what csvReader.Read returns for a line of a file
Row(id) == [kind |-> "record", id |-> id]
DecodeError == [kind |-> "ParseError", id |-> ""]
ReadError == [kind |-> "ErrUnexpectedEOF", id |-> ""]

\* The files on disk, by their index in FileNames.  The second has a malformed line
\* and a row without identifier before its good row; the third cannot be read up to
\* its header; the fourth is a stream that breaks off after its first row, whose
\* reader returns the same error to every Read from then on.
DiskFiles ==
    <<[opens |-> TRUE, header |-> <<IdCol, "Company">>, rows |-> <<Row("AAPL")>>],
      [opens |-> TRUE, header |-> <<IdCol, "Company">>,
       rows |-> <<DecodeError, Row(""), Row("AAPL")>>],
      [opens |-> FALSE, header |-> <<>>, rows |-> <<>>],
      [opens |-> TRUE, header |-> <<IdCol, "Revenue">>, rows |-> <<Row("MSFT"), ReadError>>]>>

\* the errors LoadCSVFile returns before it reaches the rows
FileErrors == {Errorf("error opening file"), Errorf("error creating gzip reader"),
               Errorf("error reading CSV header")}

\* filePaths: lists of distinct files, up to MaxBatch long
Batches ==
    {b \in UNION {[1..n -> Files] : n \in 0..MaxBatch} :
        \A a, c \in 1..Len(b) : a # c => b[a] # b[c]}

Min(a, b) == IF a < b THEN a ELSE b

\* no LoadFiles call is running
IdleLoadFiles ==
    [pc |-> "idle", filePaths |-> <<>>, sent |-> 0, jobs |-> <<>>, closed |-> FALSE,
     numWorkers |-> 0, processedCount |-> 0, err |-> NoError,
     wpc |-> [w \in Workers |-> "off"], file |-> [w \in Workers |-> 0],
     hi |-> [w \in Workers |-> 0], cols |-> [w \in Workers |-> <<>>],
     row |-> [w \in Workers |-> 0], spin |-> [w \in Workers |-> FALSE],
     pulled |-> <<>>, loaded |-> <<>>]

\* LoadFiles(filePaths) up to the loop that sends: an empty list returns at once;
\* otherwise numWorkers goroutines are started, NumWorkers being runtime.NumCPU()
LoadFiles ==
    /\ lf.pc = "idle"
    /\ \E filePaths \in Batches :
          lf' = IF Len(filePaths) = 0
                THEN [lf EXCEPT !.pc = "returned"]
                ELSE [lf EXCEPT !.pc = "send", !.filePaths = filePaths,
                                !.numWorkers = Min(NumWorkers, Len(filePaths)),
                                !.wpc = [w \in Workers |->
                                           IF w <= Min(NumWorkers, Len(filePaths))
                                           THEN "range" ELSE "off"]]
    /\ UNCHANGED <<assetFile, metaFile, columns, Data, wk, log, q, assetIDs, api, legacy, unreadable, pt, idPrefixFilter>>

\* jobs <- filePath: the channel holds len(filePaths), so the send never blocks
Send ==
    /\ lf.pc = "send"
    /\ lf.sent < Len(lf.filePaths)
    /\ lf' = [lf EXCEPT !.sent = lf.sent + 1,
                        !.jobs = Append(lf.jobs, lf.filePaths[lf.sent + 1])]
    /\ UNCHANGED <<assetFile, metaFile, columns, Data, wk, log, q, assetIDs, api, legacy, unreadable, pt, idPrefixFilter>>

\* close(jobs)
Close ==
    /\ lf.pc = "send"
    /\ lf.sent = Len(lf.filePaths)
    /\ lf' = [lf EXCEPT !.pc = "wait", !.closed = TRUE]
    /\ UNCHANGED <<assetFile, metaFile, columns, Data, wk, log, q, assetIDs, api, legacy, unreadable, pt, idPrefixFilter>>

WaitGroupZero_NoWait == TRUE

\* the counter of wg is zero: every worker that was started has run wg.Done
WaitGroupZero == \A w \in Workers : lf.wpc[w] \in {"off", "done"}

LoadFilesReturn_FirstError(loaded) ==
    IF \E n \in 1..Len(loaded) : loaded[n].err # NoError
    THEN loaded[CHOOSE n \in 1..Len(loaded) : loaded[n].err # NoError].err
    ELSE NoError

\* what LoadFiles returns after wg.Wait
LoadFilesReturn(loaded) == NoError

\* wg.Wait returns; j.Data["placeholder"] is set; return
Wait ==
    /\ lf.pc = "wait"
    /\ WaitGroupZero
    /\ Data' = ("placeholder" :> [ID_BB_GLOBAL |-> "placeholder"]) @@ Data
    /\ lf' = [lf EXCEPT !.pc = "returned", !.err = LoadFilesReturn(lf.loaded)]
    /\ UNCHANGED <<assetFile, metaFile, columns, wk, log, q, assetIDs, api, legacy, unreadable, pt, idPrefixFilter>>

\* for filePath := range jobs: a path is received
Receive(w) ==
    /\ lf.wpc[w] = "range"
    /\ lf.jobs # <<>>
    /\ lf' = [lf EXCEPT !.wpc[w] = "open", !.file[w] = Head(lf.jobs), !.jobs = Tail(lf.jobs),
                        !.pulled = Append(lf.pulled, [w |-> w, file |-> Head(lf.jobs)])]
    /\ UNCHANGED <<assetFile, metaFile, columns, Data, wk, log, q, assetIDs, api, legacy, unreadable, pt, idPrefixFilter>>

\* for filePath := range jobs: the channel is closed and empty; wg.Done
WorkerReturn(w) ==
    /\ lf.wpc[w] = "range"
    /\ lf.jobs = <<>>
    /\ lf.closed
    /\ lf' = [lf EXCEPT !.wpc[w] = "done"]
    /\ UNCHANGED <<assetFile, metaFile, columns, Data, wk, log, q, assetIDs, api, legacy, unreadable, pt, idPrefixFilter>>

\* LoadCSVFile returned err to the worker, which logs it, counts the file and goes
\* back to the channel
Loaded(w, err) ==
    [lf EXCEPT !.wpc[w] = "range", !.file[w] = 0, !.row[w] = 0, !.hi[w] = 0,
               !.processedCount = lf.processedCount + 1,
               !.loaded = Append(lf.loaded, [w |-> w, file |-> lf.file[w], err |-> err])]

\* LoadCSVFile: the file cannot be opened, unzipped or read up to its header
OpenFails(w) ==
    /\ lf.wpc[w] = "open"
    /\ ~DiskFiles[lf.file[w]].opens
    /\ \E err \in FileErrors : lf' = Loaded(w, err)
    /\ UNCHANGED <<assetFile, metaFile, columns, Data, wk, log, q, assetIDs, api, legacy, unreadable, pt, idPrefixFilter>>

\* LoadCSVFile up to the loop over its header: the header is read, and a header
\* without ID_BB_GLOBAL ends the call
OpenCSVFile(w) ==
    /\ lf.wpc[w] = "open"
    /\ DiskFiles[lf.file[w]].opens
    /\ lf' = IF IdIndex(DiskFiles[lf.file[w]].header) = 0
             THEN Loaded(w, NoError)
             ELSE [lf EXCEPT !.wpc[w] = "header", !.hi[w] = 1]
    /\ UNCHANGED <<assetFile, metaFile, columns, Data, wk, log, q, assetIDs, api, legacy, unreadable, pt, idPrefixFilter>>

\* the column of the header that worker w is adding
HeaderColumn(w) == DiskFiles[lf.file[w]].header[lf.hi[w]]

\* `for _, col := range header`: the next column, or on to the row loop
NextHeaderColumn(w, l) ==
    IF lf.hi[w] < Len(DiskFiles[lf.file[w]].header)
    THEN [l EXCEPT !.wpc[w] = "header", !.hi[w] = lf.hi[w] + 1, !.cols[w] = <<>>]
    ELSE [l EXCEPT !.wpc[w] = "rows", !.hi[w] = 0, !.row[w] = 1, !.cols[w] = <<>>]

\* addColumnIfNotExists(col) of the header loop, which holds no lock: the scan of
\* j.columns
HeaderAddColumn(w) ==
    /\ lf.wpc[w] = "header"
    /\ lf' = IF AddColumn(columns, HeaderColumn(w)) = columns
             THEN NextHeaderColumn(w, lf)
             ELSE [lf EXCEPT !.wpc[w] = "headerRead"]
    /\ UNCHANGED <<assetFile, metaFile, columns, Data, wk, log, q, assetIDs, api, legacy, unreadable, pt, idPrefixFilter>>

\* j.columns = append(j.columns, col): the read of the slice
HeaderAppendRead(w) ==
    /\ lf.wpc[w] = "headerRead"
    /\ lf' = [lf EXCEPT !.wpc[w] = "headerWrite", !.cols[w] = columns]
    /\ UNCHANGED <<assetFile, metaFile, columns, Data, wk, log, q, assetIDs, api, legacy, unreadable, pt, idPrefixFilter>>

\* j.columns = append(j.columns, col): the assignment
HeaderAppendWrite(w) ==
    /\ lf.wpc[w] = "headerWrite"
    /\ columns' = Append(lf.cols[w], HeaderColumn(w))
    /\ lf' = NextHeaderColumn(w, lf)
    /\ UNCHANGED <<assetFile, metaFile, Data, wk, log, q, assetIDs, api, legacy, unreadable, pt, idPrefixFilter>>

\* the worker is at csvReader.Read of its row loop
AtRead(w) == lf.wpc[w] = "rows" /\ wk[w].pc = "idle"

\* record, err := csvReader.Read(): err == io.EOF; LoadCSVFile returns nil
ReadEOF(w) ==
    /\ AtRead(w)
    /\ lf.row[w] > Len(DiskFiles[lf.file[w]].rows)
    /\ lf' = Loaded(w, NoError)
    /\ UNCHANGED <<assetFile, metaFile, columns, Data, wk, log, q, assetIDs, api, legacy, unreadable, pt, idPrefixFilter>>

\* csvReader.Read returns a parse error for a line, or a record whose identifier is
\* empty: continue with the next line
ReadSkipped(w) ==
    /\ AtRead(w)
    /\ lf.row[w] <= Len(DiskFiles[lf.file[w]].rows)
    /\ LET r == DiskFiles[lf.file[w]].rows[lf.row[w]]
       IN  r.kind = "ParseError" \/ (r.kind = "record" /\ r.id = "")
    /\ lf' = [lf EXCEPT !.row[w] = lf.row[w] + 1]
    /\ UNCHANGED <<assetFile, metaFile, columns, Data, wk, log, q, assetIDs, api, legacy, unreadable, pt, idPrefixFilter>>

\* csvReader.Read returns an error of the underlying reader that is not io.EOF: the
\* warning is logged, and continue.  The reader returns the same error to every later
\* Read, so the loop repeats this step from now on; spin is the parity of the warnings
\* it has logged.
ReadFails(w) ==
    /\ AtRead(w)
    /\ lf.row[w] <= Len(DiskFiles[lf.file[w]].rows)
    /\ DiskFiles[lf.file[w]].rows[lf.row[w]].kind = "ErrUnexpectedEOF"
    /\ lf' = [lf EXCEPT !.spin[w] = ~lf.spin[w]]
    /\ UNCHANGED <<assetFile, metaFile, columns, Data, wk, log, q, assetIDs, api, legacy, unreadable, pt, idPrefixFilter>>

\* csvReader.Read returns a record with an identifier: UpdateAssetFromCSVWithDate is
\* called for it, and the loop goes on after the call has returned
ReadRecord(w) ==
    /\ AtRead(w)
    /\ lf.row[w] <= Len(DiskFiles[lf.file[w]].rows)
    /\ LET r == DiskFiles[lf.file[w]].rows[lf.row[w]]
       IN  /\ r.kind = "record"
           /\ r.id # ""
           /\ Call(w, r.id, DiskFiles[lf.file[w]].header, lf.file[w])
    /\ lf' = [lf EXCEPT !.row[w] = lf.row[w] + 1]
    /\ UNCHANGED <<assetFile, metaFile, columns, Data, q, assetIDs, api, legacy, unreadable, pt, idPrefixFilter>>

\* the goroutine of worker w
WorkerStep(w) ==
    \/ Receive(w)
    \/ WorkerReturn(w)
    \/ OpenFails(w)
    \/ OpenCSVFile(w)
    \/ HeaderAddColumn(w)
    \/ HeaderAppendRead(w)
    \/ HeaderAppendWrite(w)
    \/ ReadEOF(w)
    \/ ReadSkipped(w)
    \/ ReadFails(w)
    \/ ReadRecord(w)
    \/ MergeStep(w)

\* the goroutine that called LoadFiles
MainStep ==
    \/ LoadFiles
    \/ Send
    \/ Close
    \/ Wait

----------------------------------------------------------------------------
(* ProgressTracker: the counter and the idle timer, called from several
   goroutines.  Time is counted in seconds and advances by TickSeconds. *)

MaxOps == 3
TickSeconds == 15
MaxClock == 60
\* 30*time.Second, the delay of the idle timer
IdleTimeout == 30

ProgressOps == {"StartProgress", "UpdateProgress", "IncrementProgress", "CompleteProgress",
                "SetStatus"}

IdleGoroutine == [pc |-> "idle", op |-> "", current |-> 0]

\* time.AfterFunc(30*time.Second, ...) at time now: a running timer
AfterFunc(now) == [deadline |-> now + IdleTimeout, state |-> "running"]

\* NewProgressTracker: status "Initializing", not idle, and the first idle timer
NewProgressTracker ==
    [status |-> "Initializing", total |-> 0, current |-> 0, isIdle |-> FALSE,
     idleTimer |-> 1, timers |-> <<AfterFunc(0)>>,
     clock |-> 0, lastOp |-> 0, calls |-> <<>>,
     g |-> [w \in Workers |-> IdleGoroutine]]

\* the tracker's operations leave the store alone
ProgressFrame == UNCHANGED <<assetFile, metaFile, columns, Data, wk, log, q, assetIDs, api,
                             legacy, lf, unreadable, idPrefixFilter>>

\* a timer has reached its deadline and has not called its function yet
Due == \E t \in 1..Len(pt.timers) :
          pt.timers[t].state = "running" /\ pt.timers[t].deadline <= pt.clock

\* a goroutine calls StartProgress, UpdateProgress, CompleteProgress or SetStatus:
\* it is about to take pt.Lock.  No call is made at the instant a timer is due.
ProgressCall(w) ==
    /\ pt.g[w].pc = "idle"
    /\ Len(pt.calls) < MaxOps
    /\ ~Due
    /\ ProgressFrame
    /\ \E op \in ProgressOps \ {"IncrementProgress"} :
          pt' = [pt EXCEPT !.g[w] = [pc |-> "lock", op |-> op, current |-> 1],
                           !.calls = Append(@, op)]

\* IncrementProgress evaluates pt.current+1, the argument of UpdateProgress, before
\* UpdateProgress takes pt.Lock
IncrementProgress(w) ==
    /\ pt.g[w].pc = "idle"
    /\ Len(pt.calls) < MaxOps
    /\ ~Due
    /\ ProgressFrame
    /\ pt' = [pt EXCEPT !.g[w] = [pc |-> "lock", op |-> "IncrementProgress",
                                  current |-> pt.current + 1],
                        !.calls = Append(@, "IncrementProgress")]

\* the section of an operation between pt.Lock and pt.Unlock
Locked(w) ==
    /\ pt.g[w].pc = "lock"
    /\ ProgressFrame
    /\ LET op == pt.g[w].op
       IN  pt' = [pt EXCEPT
                    !.isIdle = FALSE,
                    !.status = IF op = "IncrementProgress" THEN @ ELSE op,
                    !.total = IF op = "StartProgress" THEN MaxOps ELSE @,
                    !.current = CASE op = "StartProgress" -> 0
                                  [] op \in {"UpdateProgress", "IncrementProgress"}
                                       -> pt.g[w].current
                                  [] OTHER -> @,
                    !.lastOp = pt.clock,
                    !.g[w].pc = "stop"]

\* resetIdleTimer, under pt.Lock: pt.idleTimer.Stop().  Stop on a timer that has
\* fired or was stopped does nothing.
StopIdleTimer(w) ==
    /\ pt.g[w].pc = "stop"
    /\ ProgressFrame
    /\ pt' = [pt EXCEPT
                !.timers = IF pt.idleTimer # 0 /\ @[pt.idleTimer].state = "running"
                           THEN [@ EXCEPT ![pt.idleTimer].state = "stopped"]
                           ELSE @,
                !.g[w].pc = "arm"]

\* resetIdleTimer, after pt.Unlock: pt.idleTimer = time.AfterFunc(...), and the
\* operation returns
ArmIdleTimer(w) ==
    /\ pt.g[w].pc = "arm"
    /\ ProgressFrame
    /\ pt' = [pt EXCEPT !.timers = Append(@, AfterFunc(pt.clock)),
                        !.idleTimer = Len(pt.timers) + 1,
                        !.g[w] = IdleGoroutine]

\* setIdleSafe(true), from a timer: idle, unless the tracker is idle already
setIdleSafe(p) == IF ~p.isIdle THEN [p EXCEPT !.isIdle = TRUE, !.status = "Idle"] ELSE p

\* a running timer reaches its deadline and calls setIdleSafe(true)
TimerFires ==
    /\ ProgressFrame
    /\ \E t \in 1..Len(pt.timers) :
          /\ pt.timers[t].state = "running"
          /\ pt.timers[t].deadline <= pt.clock
          /\ pt' = [setIdleSafe(pt) EXCEPT !.timers[t].state = "fired"]

\* time passes.  An operation takes far less than TickSeconds and a timer calls
\* its function at its deadline: no operation is under way and no timer is due.
Tick ==
    /\ pt.clock < MaxClock
    /\ \A w \in Workers : pt.g[w].pc = "idle"
    /\ ~Due
    /\ ProgressFrame
    /\ pt' = [pt EXCEPT !.clock = @ + TickSeconds]

ProgressStep(w) ==
    \/ ProgressCall(w)
    \/ IncrementProgress(w)
    \/ Locked(w)
    \/ StopIdleTimer(w)
    \/ ArmIdleTimer(w)

----------------------------------------------------------------------------
(* Specifications. *)

\* NewJSONAssetManager on an empty data directory
Init ==
    /\ assetFile = [id \in StoreIds |-> NoAssetFile]
    /\ metaFile = [id \in StoreIds |-> NoMetaFile]
    /\ columns = <<>>
    /\ Data = EmptyDoc
    /\ wk = [w \in Workers |-> IdleFrame]
    /\ log = <<>>
    /\ q = IdleQuery
    /\ assetIDs = {}
    /\ api = IdleCall
    /\ legacy = NoLegacy
    /\ lf = IdleLoadFiles
    /\ unreadable = AllReadable
    /\ pt = NewProgressTracker
    /\ idPrefixFilter = <<>>

\* concurrent ingestion workers; a document write may fail
Next ==
    \E w \in Workers :
        \/ UpdateAssetFromCSVWithDate(w)
        \/ MergeStep(w)
        \/ SaveAssetFails(w)

Spec == Init /\ [][Next]_vars

\* one worker: merges one at a time, on a filesystem that does not fail
NextSeq ==
    \/ SeqUpdateAssetFromCSVWithDate(1)
    \/ MergeStep(1)

SpecSeq == Init /\ [][NextSeq]_vars

\* the life of one store: ingestion by one worker, restarts, retrievals, statistics
NextStore ==
    \/ StoreUpdateAssetFromCSVWithDate(1)
    \/ MergeStep(1)
    \/ LoadCSVFile
    \/ NewJSONAssetManager
    \/ loadData
    \/ GetIndexInfo
    \/ SaveAssetCall
    \/ handleGetAsset

SpecStore == Init /\ [][NextStore]_vars

\* one call of LoadFiles on the new store
NextLoad ==
    \/ MainStep
    \/ \E w \in Workers : WorkerStep(w)

SpecLoad == Init /\ [][NextLoad]_vars

\* the scheduler runs every goroutine that can take a step
SpecLoadFair ==
    /\ Init
    /\ [][NextLoad]_vars
    /\ WF_vars(MainStep)
    /\ \A w \in Workers : WF_vars(WorkerStep(w))

\* A data directory left by a version that kept one index file: the documents of two
\* entities, no provenance file, and asset_index.json with its entries.
LegacyDocs ==
    [id \in StoreIds |->
        IF id = "AAPL"
        THEN [exists |-> TRUE,
              data |-> [ID_BB_GLOBAL |-> "AAPL", Company |-> "Apple Inc.", Revenue |-> "365.8"]]
        ELSE IF id = "MSFT"
        THEN [exists |-> TRUE, data |-> [ID_BB_GLOBAL |-> "MSFT", Revenue |-> "168.1"]]
        ELSE NoAssetFile]

LegacyIndexes ==
    {<<>>,
     <<ColumnIndex("AAPL", "Company", "20240101", "companies_20240101.csv")>>,
     <<ColumnIndex("AAPL", "Company", "20240101", "companies_20240101.csv"),
       ColumnIndex("MSFT", "Revenue", "20231231", "companies_20231231.csv"),
       ColumnIndex("AAPL", "Revenue", "20240101", "companies_20240101.csv")>>}

\* before the first start on that directory
InitMigrate ==
    /\ assetFile = LegacyDocs
    /\ metaFile = [id \in StoreIds |-> NoMetaFile]
    /\ columns = <<>>
    /\ Data = EmptyDoc
    /\ wk = [w \in Workers |-> IdleFrame]
    /\ log = <<>>
    /\ q = IdleQuery
    /\ assetIDs = {}
    /\ api = IdleCall
    /\ legacy \in [state : {"present"}, entries : LegacyIndexes]
    /\ lf = IdleLoadFiles
    /\ unreadable = AllReadable
    /\ pt = NewProgressTracker
    /\ idPrefixFilter = <<>>

\* a merge by the manager that was started on that directory
MigrateUpdateAssetFromCSVWithDate(w) ==
    /\ legacy.state = "migrated"
    /\ StoreUpdateAssetFromCSVWithDate(w)

\* starts of the process on that directory, and merges between them
NextMigrate ==
    \/ NewJSONAssetManager
    \/ MigrateUpdateAssetFromCSVWithDate(1)
    \/ MergeStep(1)

SpecMigrate == InitMigrate /\ [][NextMigrate]_vars

\* NewJSONAssetManager when os.Rename of the legacy index file fails: the warning is
\* logged, the migration has written its provenance files, and asset_index.json
\* stays where it is
NewJSONAssetManagerRenameFails ==
    /\ MayCall
    /\ legacy.state = "present"
    /\ \E order \in RangeOrders(ScannedColumnsOf(migrateFromLegacyIndex.meta)) :
          scanExistingAssets(migrateFromLegacyIndex.meta, <<>>, {}, order)
    /\ Data' = EmptyDoc
    /\ api' = [IdleCall EXCEPT !.op = "NewJSONAssetManager", !.n = api.n + 1,
                               !.before = columns, !.at = Len(log)]
    /\ UNCHANGED <<assetFile, wk, log, q, legacy, lf, unreadable, pt, idPrefixFilter>>

\* a merge by a manager that was started on that directory
RemigrateUpdateAssetFromCSVWithDate(w) ==
    /\ api.n > 0
    /\ StoreUpdateAssetFromCSVWithDate(w)

\* starts of the process on a directory whose legacy index file may stay in place,
\* and merges between them
NextRemigrate ==
    \/ NewJSONAssetManager
    \/ NewJSONAssetManagerRenameFails
    \/ RemigrateUpdateAssetFromCSVWithDate(1)
    \/ MergeStep(1)

SpecRemigrate == InitMigrate /\ [][NextRemigrate]_vars

\* The store after LoadFiles ingested companies_20240101.csv (AAPL, MSFT),
\* details_20240101.csv (TSLA) and prices_20240102.csv (header ID_BB_GLOBAL, PX_LAST,
\* SECTOR; rows AAPL,86.0,Technology and MSFT,1200,), with no worker running.
IngestedDocs ==
    [AAPL |-> [ID_BB_GLOBAL |-> "AAPL", Company |-> "Apple Inc.", Industry |-> "Technology",
               Revenue |-> "365.8", PX_LAST |-> "86.0", SECTOR |-> "Technology"],
     MSFT |-> [ID_BB_GLOBAL |-> "MSFT", Company |-> "Microsoft Corporation",
               Industry |-> "Technology", Revenue |-> "168.1", PX_LAST |-> "1200"],
     TSLA |-> [ID_BB_GLOBAL |-> "TSLA", Employees |-> "99290"]]

IngestedColumns(id) ==
    IF id = "TSLA"
    THEN <<ColumnIndex(id, "ID_BB_GLOBAL", "20240101", "details_20240101.csv"),
           ColumnIndex(id, "Employees", "20240101", "details_20240101.csv")>>
    ELSE <<ColumnIndex(id, "ID_BB_GLOBAL", "20240101", "companies_20240101.csv"),
           ColumnIndex(id, "Company", "20240101", "companies_20240101.csv"),
           ColumnIndex(id, "Industry", "20240101", "companies_20240101.csv"),
           ColumnIndex(id, "Revenue", "20240101", "companies_20240101.csv"),
           ColumnIndex(id, "PX_LAST", "20240102", "prices_20240102.csv")>>
         \o (IF id = "AAPL"
             THEN <<ColumnIndex(id, "SECTOR", "20240102", "prices_20240102.csv")>>
             ELSE <<>>)

InitQuery ==
    /\ assetFile = [id \in StoreIds |-> [exists |-> TRUE, data |-> IngestedDocs[id]]]
    /\ metaFile = [id \in StoreIds |-> [exists |-> TRUE, columns |-> IngestedColumns(id)]]
    /\ columns = <<"ID_BB_GLOBAL", "Company", "Industry", "Revenue", "Employees", "PX_LAST",
                   "SECTOR">>
    /\ Data = [id \in StoreIds |-> IngestedDocs[id]]
    /\ wk = [w \in Workers |-> IdleFrame]
    /\ log = <<>>
    /\ q = IdleQuery
    /\ assetIDs = {}
    /\ api = IdleCall
    /\ legacy = NoLegacy
    /\ lf = IdleLoadFiles
    /\ unreadable = AllReadable
    /\ pt = NewProgressTracker
    /\ idPrefixFilter = <<>>

\* queries against the ingested store
NextQuery ==
    \/ ExecuteSQLQuery
    \/ handleQuery
    \/ QueryParseError
    \/ QueryUnknownTable
    \/ executeSQLQueryScan

SpecQuery == InitQuery /\ [][NextQuery]_vars

\* a query scanning the ingested store while one worker merges
NextScan ==
    \/ ScanQuery
    \/ WalkBegin
    \/ WalkFile
    \/ WalkEnd
    \/ ScanUpdateAssetFromCSVWithDate(1)
    \/ MergeBody(1)
    \/ SaveAssetTruncate(1)
    \/ SaveAssetWrite(1)

SpecScan == InitQuery /\ [][NextScan]_vars

\* queries and merges, one at a time, on the ingested store when a document file of
\* it gets damaged
NextDamage ==
    \/ Damage
    \/ ScanQuery
    \/ executeSQLQueryScan
    \/ ScanUpdateAssetFromCSVWithDate(1)
    \/ MergeStep(1)
    \/ LoadOrCreateAssetFails(1)

SpecDamage == InitQuery /\ [][NextDamage]_vars

\* Rows whose cells hold values the merge skips, and rows without identifier.
MaxCellMerges == 2

\* what a cell of the Company column may hold, next to the value of its file
SkippedCells == {"", "null", "NULL", "Null", "N.A."}
OtherCells == {"n.a."}

CellHeader == <<IdCol, "Company", "Revenue">>

\* LoadCSVFile reads a row with an identifier and calls the merge for it
CellUpdateAssetFromCSVWithDate(w) ==
    /\ Len(log) < MaxCellMerges
    /\ \A u \in Workers : wk[u].pc = "idle"
    /\ \E id \in Ids, f \in Files, v \in SkippedCells \cup OtherCells \cup {"Apple Inc."} :
          CallRecord(w, id, CellHeader, <<id, v, FileValue[f]>>, f)
    /\ UNCHANGED <<assetFile, metaFile, columns, Data, q, assetIDs, api, legacy, lf, unreadable, pt, idPrefixFilter>>

\* LoadCSVFile reads a row whose identifier is empty: skippedCount++ and continue.
\* The log keeps the row.
RowWithoutId(w) ==
    /\ Len(log) < MaxCellMerges
    /\ \A u \in Workers : wk[u].pc = "idle"
    /\ \E f \in Files :
          log' = Append(log,
                   [w |-> w, id |-> "", header |-> CellHeader,
                    record |-> <<"", "Apple Inc.", FileValue[f]>>,
                    effectiveDate |-> FileDate[f], sourceFile |-> FileNames[f],
                    status |-> "skipped", changed |-> FALSE, quiet |-> TRUE,
                    preAsset |-> NoAssetFile, preColumns |-> <<>>, damaged |-> FALSE])
    /\ UNCHANGED <<assetFile, metaFile, columns, Data, wk, q, assetIDs, api, legacy, lf, unreadable, pt, idPrefixFilter>>

NextCell ==
    \/ CellUpdateAssetFromCSVWithDate(1)
    \/ RowWithoutId(1)
    \/ MergeStep(1)

SpecCell == Init /\ [][NextCell]_vars

\* Merges through a manager whose id filter may be set.
MaxFilterMerges == 3

\* SetIDPrefixFilter was not called, or was called with one pattern
IdPrefixFilters == {<<>>, <<"AA">>}

InitFilter ==
    /\ assetFile = [id \in StoreIds |-> NoAssetFile]
    /\ metaFile = [id \in StoreIds |-> NoMetaFile]
    /\ columns = <<>>
    /\ Data = EmptyDoc
    /\ wk = [w \in Workers |-> IdleFrame]
    /\ log = <<>>
    /\ q = IdleQuery
    /\ assetIDs = {}
    /\ api = IdleCall
    /\ legacy = NoLegacy
    /\ lf = IdleLoadFiles
    /\ unreadable = AllReadable
    /\ pt = NewProgressTracker
    /\ idPrefixFilter \in IdPrefixFilters

\* the rows the filtered manager is called for: the Company cell is empty or a name
FilterRows(id, f) == {<<id, v, FileValue[f]>> : v \in {"", "Apple Inc."}}

\* UpdateAssetFromCSVWithDate for an id that passes ShouldIncludeID
FilterUpdateAssetFromCSVWithDate(w) ==
    /\ Len(log) < MaxFilterMerges
    /\ \A u \in Workers : wk[u].pc = "idle"
    /\ \E id \in Ids, f \in Files :
          /\ ShouldIncludeID(id)
          /\ \E record \in FilterRows(id, f) : CallRecord(w, id, CellHeader, record, f)
    /\ UNCHANGED <<assetFile, metaFile, columns, Data, q, assetIDs, api, legacy, lf, unreadable, pt, idPrefixFilter>>

\* UpdateAssetFromCSVWithDate for an id that does not pass: return false, nil
ExcludedUpdateAssetFromCSVWithDate(w) ==
    /\ Len(log) < MaxFilterMerges
    /\ \A u \in Workers : wk[u].pc = "idle"
    /\ \E id \in Ids, f \in Files :
          /\ ~ShouldIncludeID(id)
          /\ \E record \in FilterRows(id, f) :
                log' = Append(log,
                         [w |-> w, id |-> id, header |-> CellHeader, record |-> record,
                          effectiveDate |-> FileDate[f], sourceFile |-> FileNames[f],
                          status |-> "ok", changed |-> FALSE, quiet |-> TRUE,
                          preAsset |-> assetFile[id], preColumns |-> metaFile[id].columns,
                          damaged |-> FALSE])
    /\ UNCHANGED <<assetFile, metaFile, columns, Data, wk, q, assetIDs, api, legacy, lf, unreadable, pt, idPrefixFilter>>

NextFilter ==
    \/ FilterUpdateAssetFromCSVWithDate(1)
    \/ ExcludedUpdateAssetFromCSVWithDate(1)
    \/ MergeStep(1)

SpecFilter == InitFilter /\ [][NextFilter]_vars

\* Rows of files whose header names ID_BB_GLOBAL anywhere, or more than once.
MaxRowMerges == 2

RowHeaders == {<<IdCol, "Company">>, <<"Company", IdCol>>, <<IdCol, IdCol>>}

RowRecords == [1..2 -> {"", "AAPL", "MSFT"}]

\* the row loop of LoadCSVFile: id := record[idIndex], and the merge is called for
\* an id that is not empty
RowUpdateAssetFromCSVWithDate(w) ==
    /\ Len(log) < MaxRowMerges
    /\ \A u \in Workers : wk[u].pc = "idle"
    /\ \E header \in RowHeaders, record \in RowRecords, f \in Files :
          LET id == record[IdIndex(header)]
          IN  /\ id # ""
              /\ CallRecord(w, id, header, record, f)
    /\ UNCHANGED <<assetFile, metaFile, columns, Data, q, assetIDs, api, legacy, lf, unreadable, pt, idPrefixFilter>>

NextRow ==
    \/ RowUpdateAssetFromCSVWithDate(1)
    \/ MergeStep(1)

SpecRow == Init /\ [][NextRow]_vars

\* The path of a document file.
jsonDir == "json"

\* filepath.Join of the characters of s from position n on, each a directory
RECURSIVE TrieDirs(_, _)
TrieDirs(s, n) == IF n > Len(s) THEN "" ELSE "/" \o CharAt(s, n) \o TrieDirs(s, n + 1)

\* GetJSONFilePath when os.MkdirAll succeeds: the directories are the characters of
\* strings.ToLower(id), the file is id+".json"
GetJSONFilePath(id) == jsonDir \o TrieDirs(ToLower(id), 1) \o "/" \o id \o ".json"

\* filepath.Dir of a path that filepath.Join returned
RECURSIVE Dir(_)
Dir(path) ==
    IF Len(path) = 0 THEN "."
    ELSE IF CharAt(path, Len(path)) = "/" THEN SubSeq(path, 1, Len(path) - 1)
    ELSE Dir(SubSeq(path, 1, Len(path) - 1))

\* getAssetMetadataPath
getAssetMetadataPath(id) == Dir(GetJSONFilePath(id)) \o "/" \o id \o ".metadata.json"

\* identifiers that differ in the case of their letters only, and others
PathIds ==
    {a \o b \o c \o d : a \in {"A", "a"}, b \in {"A", "a"}, c \in {"P", "p"}, d \in {"L", "l"}}
    \cup {"MSFT", "msft", "BBG000B9XRY4"}

\* a caller resolves an identifier; the call before it is kept for comparison
ResolveCall ==
    /\ api.n < MaxCalls
    /\ \E id \in PathIds :
          api' = [IdleCall EXCEPT !.op = "GetJSONFilePath", !.n = api.n + 1, !.id = id,
                                  !.path = GetJSONFilePath(id),
                                  !.before = <<api.id, api.path>>]
    /\ UNCHANGED <<assetFile, metaFile, columns, Data, wk, log, q, assetIDs, legacy, lf, unreadable, pt, idPrefixFilter>>

NextPath == ResolveCall

SpecPath == Init /\ [][NextPath]_vars

\* the operations of one ProgressTracker called from NumWorkers goroutines, its
\* timers, and the passing of time
NextProgress ==
    \/ \E w \in Workers : ProgressStep(w)
    \/ TimerFires
    \/ Tick

SpecProgress == Init /\ [][NextProgress]_vars

----------------------------------------------------------------------------
(* What the claims speak of. *)

\* no merge call is in progress
Quiescent == \A w \in Workers : wk[w].pc = "idle"

\* the columns a merge call supplies a value for
Supplies(m) ==
    {m.header[n] : n \in {x \in 1..Len(m.record) : x <= Len(m.header) /\ ~IsSentinel(m.record[x])}}

\* the value a merge call supplies for column c
Supplied(m, c) == m.record[CHOOSE n \in 1..Len(m.header) : m.header[n] = c]

\* the merge calls on (id, c), as indices of the log
MergesOn(id, c) == {k \in 1..Len(log) : log[k].id = id /\ c \in Supplies(log[k])}

\* the merge calls on id
MergesOnId(id) == {k \in 1..Len(log) : log[k].id = id}

\* calendar order of two YYYYMMDD dates
Later(d2, d1) == Atoi(d2) > Atoi(d1)

\* Get(id)[c], "" when the entity or the column is absent
Stored(id, c) ==
    IF assetFile[id].exists /\ c \in DOMAIN assetFile[id].data THEN assetFile[id].data[c] ELSE ""

DocColumns(id) == IF assetFile[id].exists THEN DOMAIN assetFile[id].data ELSE {}

ProvColumns(id) == {metaFile[id].columns[n].column_name : n \in 1..Len(metaFile[id].columns)}

\* GetProvenance(id, c): the recorded effective date, "" when there is no record
ProvDate(id, c) == ColumnDate(metaFile[id].columns, c)

ProvSource(id, c) ==
    LET n == FindColumn(metaFile[id].columns, c)
    IN  IF n = 0 THEN "" ELSE metaFile[id].columns[n].source_file

\* worker w has loaded the document of its id and has not yet returned
InMerge(w) == wk[w].pc \notin {"idle", "load"}

----------------------------------------------------------------------------
(* The claims. *)

\* C1: when the merges on one id, each supplying a distinct data column, have all
\* returned without error, the stored document has every supplied column and the
\* identifier, and nothing else, whatever the interleaving of the workers.
C1_NoLostUpdates ==
    \A id \in Ids :
        LET ms == MergesOnId(id)
        IN  ( /\ Quiescent
              /\ Cardinality(ms) >= 2
              /\ \A k \in ms : log[k].status = "ok"
              /\ \A k, j \in ms : k # j => Supplies(log[k]) \cap Supplies(log[j]) = {IdCol} )
            => DocColumns(id) = UNION {Supplies(log[k]) : k \in ms} \cup {IdCol}

\* C2: while a merge on id X is between loading X's document and returning, no other
\* merge on the same id X takes a step (loads or persists X's document or provenance).
C2_MergeAtomicPerId ==
    [][\A w1, w2 \in Workers :
          (w1 # w2 /\ InMerge(w1) /\ wk[w2].pc # "idle" /\ wk[w2].id = wk[w1].id)
          => wk'[w2] = wk[w2]]_vars

\* C3: after merging v1 at date d1 and then v2 at date d2 into (e, c), one after the
\* other, Get(e)[c] = v2 with provenance date d2 when d2 > d1, and Get(e)[c] = v1 with
\* provenance date d1 when d2 <= d1.
C3_MonotonicMerge ==
    \A id \in Ids, c \in DataCols :
        LET ms == MergesOn(id, c)
        IN  (Quiescent /\ Cardinality(ms) = 2)
            => LET k1 == CHOOSE k \in ms : \A j \in ms : k <= j
                   k2 == CHOOSE k \in ms : \A j \in ms : k >= j
               IN  IF Later(log[k2].effectiveDate, log[k1].effectiveDate)
                   THEN /\ Stored(id, c) = Supplied(log[k2], c)
                        /\ ProvDate(id, c) = log[k2].effectiveDate
                   ELSE /\ Stored(id, c) = Supplied(log[k1], c)
                        /\ ProvDate(id, c) = log[k1].effectiveDate

\* C3 witness: two merges of different values into (AAPL, Revenue) with equal dates
\* have both returned.
C3_Witness ==
    /\ Quiescent
    /\ Len(log) = 2
    /\ MergesOn("AAPL", "Revenue") = {1, 2}
    /\ log[1].effectiveDate = log[2].effectiveDate
    /\ Supplied(log[1], "Revenue") # Supplied(log[2], "Revenue")

\* C4: once every merge has returned without error, a stored value that has a
\* provenance record is the value supplied by a merge whose effective date is the
\* recorded date.
C4_ValueMatchesProvenance ==
    \A id \in Ids, c \in DataCols :
        ( /\ Quiescent
          /\ \A k \in 1..Len(log) : log[k].status = "ok"
          /\ c \in DocColumns(id)
          /\ ProvDate(id, c) # "" )
        => \E k \in MergesOn(id, c) :
              /\ Supplied(log[k], c) = Stored(id, c)
              /\ log[k].effectiveDate = ProvDate(id, c)

\* C5: when no merge is in progress, the columns of every stored document are exactly
\* the columns that have a provenance record, also after merges that returned an error.
C5_ColumnsMatchProvenance ==
    \A id \in Ids : Quiescent => DocColumns(id) = ProvColumns(id)

\* C6: when the merges applied to (e, c) carry pairwise distinct effective dates, the
\* final value and provenance are those of the merge with the greatest date, in
\* whatever order they were applied.
C6_ArrivalOrderIndependence ==
    \A id \in Ids, c \in DataCols :
        LET ms == MergesOn(id, c)
        IN  ( /\ Quiescent
              /\ ms # {}
              /\ \A k, j \in ms : k # j => log[k].effectiveDate # log[j].effectiveDate )
            => LET top == CHOOSE k \in ms :
                              \A j \in ms : j # k => Later(log[k].effectiveDate, log[j].effectiveDate)
               IN  /\ Stored(id, c) = Supplied(log[top], c)
                   /\ ProvDate(id, c) = log[top].effectiveDate
                   /\ ProvSource(id, c) = log[top].sourceFile

\* C6 witness: three merges into (AAPL, Revenue) with pairwise distinct dates have
\* returned, and the one with the greatest date was applied first.
C6_Witness ==
    /\ Quiescent
    /\ Len(log) = 3
    /\ MergesOn("AAPL", "Revenue") = {1, 2, 3}
    /\ Later(log[1].effectiveDate, log[3].effectiveDate)
    /\ Later(log[3].effectiveDate, log[2].effectiveDate)

\* C7: a merge that returned an error, with no other merge on its entity during or
\* after it, has left the entity's stored document and provenance records as they were
\* when it was called.
C7_FailedMergeChangesNothing ==
    \A k \in 1..Len(log) :
        ( /\ log[k].status = "err"
          /\ log[k].quiet
          /\ \A j \in 1..Len(log) : j > k => log[j].id # log[k].id )
        => /\ assetFile[log[k].id] = log[k].preAsset
           /\ metaFile[log[k].id].columns = log[k].preColumns

\* the documents of the store, in scan order
StoredDocs ==
    LET order == WalkOrder({id \in StoreIds : assetFile[id].exists})
    IN  [n \in 1..Len(order) |-> assetFile[order[n]].data]

\* a row as the set of its (column name in upper case, value) pairs
Cells(row) == {<<ToUpper(k), row[k]>> : k \in DOMAIN row}

\* the names of a select list
SelectNames(select) ==
    LET parts == Split(select, ",") IN {TrimSpace(parts[n]) : n \in 1..Len(parts)}

\* the keys of doc equal to name ignoring letter case
KeysIgnoringCase(doc, name) == {k \in DOMAIN doc : ToUpper(k) = ToUpper(name)}

\* a finished query on BB_ASSETS that reported no error
QueryDone == q.pc = "done" /\ q.err = "" /\ q.in.table = "BB_ASSETS"

\* C8: "SELECT Company FROM BB_ASSETS WHERE Revenue > 300" over the store with AAPL
\* (Apple Inc., 365.8) and MSFT (168.1) returns exactly the row {Company: Apple Inc.}.
C8_ScenarioC ==
    (q.pc = "done" /\ q.sql = "SELECT Company FROM BB_ASSETS WHERE Revenue > 300")
    => /\ q.err = ""
       /\ q.results = <<[Company |-> "Apple Inc."]>>

\* C9: column names resolve against a document's keys ignoring letter case: a query
\* without predicate returns, for every document, the stored values of the keys its
\* select list names in any letter case; a wildcard query with a predicate on a column
\* named in any letter case returns the documents whose value of that column
\* satisfies the operator.
C9_CaseInsensitiveColumns ==
    /\ (QueryDone /\ ~q.in.where.has /\ q.in.select # "*")
       => /\ Len(q.results) = Len(StoredDocs)
          /\ \A n \in 1..Len(q.results) :
                Cells(q.results[n]) =
                    {<<ToUpper(k), StoredDocs[n][k]>> :
                        k \in UNION {KeysIgnoringCase(StoredDocs[n], name) :
                                        name \in SelectNames(q.in.select)}}
    /\ (QueryDone /\ q.in.where.has /\ q.in.select = "*"
          /\ q.in.where.op \in {"=", ">", "<", "!="} /\ q.in.where.lit \in {"300", "365.8", "AAPL"})
       => \A n \in 1..Len(StoredDocs) :
             (\E k \in KeysIgnoringCase(StoredDocs[n], q.in.where.col) :
                 Matches(q.in.where.op, StoredDocs[n][k], q.in.where.lit))
             <=> (\E m \in 1..Len(q.results) : q.results[m] = StoredDocs[n])

\* C10: parsing "SELECT * FROM BB_ASSETS WHERE c op v", for each of the six operators
\* and for c and v written in upper case, yields operator op, column c and literal v.
C10_OperatorsRecognised ==
    ( /\ q.pc # "idle"
      /\ q.in.select = "*"
      /\ q.in.where.has
      /\ q.in.where.col = ToUpper(q.in.where.col)
      /\ q.in.where.lit \in {"300", "365.8", "AAPL"} )
    => /\ q.parsed.err = ""
       /\ q.parsed.query.WhereOperator = q.in.where.op
       /\ q.parsed.query.WhereColumn = q.in.where.col
       /\ q.parsed.query.WhereValue = q.in.where.lit

\* the literal of a predicate as the query text writes it, without surrounding quotes
Unquoted(lit) ==
    IF Len(lit) >= 2 /\ HasPrefix(lit, "'") /\ HasSuffix(lit, "'")
    THEN SubSeq(lit, 2, Len(lit) - 1) ELSE lit

\* the identifiers, in scan order, of the stored documents that have the key col with
\* a value v for which Matches(op, v, lit)
Selected(col, op, lit) ==
    SelectSeq(WalkOrder({id \in StoreIds : assetFile[id].exists}),
              LAMBDA id : /\ col \in DOMAIN assetFile[id].data
                          /\ Matches(op, assetFile[id].data[col], lit))

\* a finished query on BB_ASSETS with a predicate on a column written as the stored key
PredicateDone ==
    /\ q.pc = "done"
    /\ q.in.table = "BB_ASSETS"
    /\ q.in.where.has
    /\ q.in.where.col = ToUpper(q.in.where.col)

\* C11: the literal of a predicate is compared as written, a quoted literal without
\* its quotes: "WHERE c = lit", for a column c written as the stored key, selects
\* exactly the documents whose value of c is the literal's characters, letter case
\* included.
C11_LiteralAsWritten ==
    (PredicateDone /\ q.in.where.op = "=")
    => /\ q.err = ""
       /\ q.parsed.query.WhereValue = Unquoted(q.in.where.lit)
       /\ q.hits = Selected(q.in.where.col, "=", Unquoted(q.in.where.lit))

\* C12: for the operators >, <, >= and <= and a bare literal, a query selects exactly
\* the documents whose value of the predicate column, as a string, is ordered
\* accordingly relative to the literal string in byte order.
C12_LexicographicComparison ==
    (PredicateDone /\ q.in.where.op \in {">", "<", ">=", "<="}
        /\ q.in.where.lit \in {"300", "365.8", "AAPL"})
    => /\ q.err = ""
       /\ q.hits = Selected(q.in.where.col, q.in.where.op, q.in.where.lit)

\* C13: a well-formed query on a table other than BB_ASSETS parses without error and
\* execution answers "unknown table", with no rows and without scanning the store.
C13_UnknownTable ==
    (q.pc # "idle" /\ q.in.table = "OTHER_TABLE")
    => /\ q.parsed.err = ""
       /\ q.parsed.query.FromTable = "OTHER_TABLE"
       /\ q.pc = "done" => /\ q.err = "unknown table: OTHER_TABLE"
                           /\ q.results = <<>>
                           /\ ~q.scanned

C13_Witness ==
    /\ q.pc = "done"
    /\ q.sql = "SELECT * FROM OTHER_TABLE"
    /\ q.err = "unknown table: OTHER_TABLE"

\* the stored document of id has no key that is the name col in any letter case
LacksColumn(id, col) ==
    ~assetFile[id].exists \/ KeysIgnoringCase(assetFile[id].data, col) = {}

\* C14: a query with a predicate returns no row for a document that does not contain
\* the predicate column, whatever the operator, != included.
C14_AbsentColumnExcluded ==
    (q.pc = "done" /\ q.scanned /\ q.parsed.query.HasWhere)
    => \A id \in StoreIds :
          LacksColumn(id, q.parsed.query.WhereColumn)
          => \A n \in 1..Len(q.hits) : q.hits[n] # id

C14_Witness ==
    /\ q.pc = "done"
    /\ q.scanned
    /\ q.parsed.query.WhereOperator = "!="
    /\ q.hits # <<>>
    /\ \E id \in StoreIds : LacksColumn(id, q.parsed.query.WhereColumn)

\* the names in a catalog
Names(list) == {list[n] : n \in 1..Len(list)}

\* the last call was op and no merge was called since: the store is as the call left it
JustCalled(op) == api.op = op /\ api.at = Len(log)

\* C15: the asset_count GetIndexInfo reports is the number of entities that have a
\* stored document, and its column_count is the length of the column catalog.
C15_StatsMatchStore ==
    JustCalled("GetIndexInfo")
    => /\ api.asset_count = Cardinality(DocIds)
       /\ api.column_count = Len(columns)

\* C16: after ingestion, a manager constructed anew on the same data directory has
\* the same set of catalog columns as the manager it replaces had in memory.
C16_CatalogRebuildable ==
    JustCalled("NewJSONAssetManager") => Names(columns) = Names(api.before)

\* C17: no step removes a name from the column catalog, whatever the interleaving of
\* the ingestion workers.
C17_CatalogNeverShrinks ==
    [][Names(columns) \subseteq Names(columns')]_vars

C19_PutGetRoundTrip ==
    (api.op = "GetAsset" /\ api.put.given)
    => /\ api.err = NoError
       /\ api.out = (IdCol :> api.id) @@ api.put.doc

\* C20: retrieving an entity that has no stored document returns a not-found error,
\* GET /api/asset/{id} answers 404, and the entity still has no document after it.
C20_MissingEntityNotFound ==
    (api.op = "GetAsset" /\ ~api.found)
    => /\ api.err.msg = "asset not found for ID " \o api.id
       /\ api.status = 404
       /\ api.at = Len(log) => ~assetFile[api.id].exists

\* the row of a merge call as a document: header[n] |-> record[n]
RowDoc(m) == [c \in {m.header[n] : n \in 1..Len(m.header)} |-> Supplied(m, c)]

\* C21: after the first file, dated D by the eight digits in its name, was ingested
\* into the empty store with one row for X, the document of X is exactly the row, every
\* column of X has a provenance record with date D and that file as source, and no
\* other entity exists.
C21_ScenarioA ==
    (Len(log) = 1 /\ log[1].status = "ok")
    => LET m == log[1]
       IN  /\ assetFile[m.id] = [exists |-> TRUE, data |-> RowDoc(m)]
           /\ ProvColumns(m.id) = DOMAIN RowDoc(m)
           /\ \A c \in DOMAIN RowDoc(m) :
                 /\ ProvDate(m.id, c) = FindDigits8(m.sourceFile)
                 /\ ProvSource(m.id, c) = m.sourceFile
           /\ \A id \in StoreIds \ {m.id} : ~assetFile[id].exists

C21_Witness ==
    /\ Len(log) = 1
    /\ log[1].status = "ok"
    /\ log[1].id = "AAPL"
    /\ log[1].sourceFile = "companies_20240101.csv"
    /\ ProvDate("AAPL", "Revenue") = "20240101"
    /\ ProvSource("AAPL", "Revenue") = "companies_20240101.csv"

\* C22: loading a file whose header has no ID_BB_GLOBAL column returns no error,
\* merges no row, and leaves every document, every provenance file and the column
\* catalog as they were.
C22_NoIdColumnSkipped ==
    [][(api'.op = "LoadCSVFile" /\ api'.n = api.n + 1 /\ IdCol \notin Names(api'.header))
       => /\ api'.err = NoError
          /\ log' = log
          /\ assetFile' = assetFile
          /\ metaFile' = metaFile
          /\ columns' = columns]_vars

C22_Witness ==
    /\ JustCalled("LoadCSVFile")
    /\ IdCol \notin Names(api.header)
    /\ api.err = NoError
    /\ DocIds # {}
    /\ columns # <<>>
    /\ columns = api.before

\* the file name of a path: what follows its last "/"
RECURSIVE BaseName(_)
BaseName(path) ==
    LET p == IndexOf(path, "/")
    IN  IF p = 0 THEN path ELSE BaseName(SubSeq(path, p + 1, Len(path)))

\* the eight-digit tokens of a name that are calendar dates
DateTokens(name) ==
    {SubSeq(name, p, p + 7) : p \in {x \in 1..(Len(name) - 7) :
        AllDigits(SubSeq(name, x, x + 7)) /\ ValidDate(SubSeq(name, x, x + 7))}}

\* C29: the effective date of a loaded file is an eight-digit token of its file name
\* that is a calendar date whenever the file name has one, and the current date only
\* when it has none; the directory part of the path plays no role.
C29_DateFromFileName ==
    api.op = "LoadCSVFile"
    => IF DateTokens(BaseName(api.path)) # {}
       THEN api.date \in DateTokens(BaseName(api.path))
       ELSE api.date = Today

\* the query text a column list and a WHERE clause stand for
DirectSQL(req) ==
    "SELECT " \o Join(req.columns, ", ") \o " FROM BB_ASSETS"
    \o (IF req.where # "" THEN " WHERE " \o req.where ELSE "")

\* C30: a POST /api/query request with an explicit column list is answered with
\* status 200 and the rows of the direct query "SELECT <columns> FROM BB_ASSETS
\* [WHERE ...]".
C30_RequestWithColumns ==
    (q.pc = "done" /\ q.req.given /\ ColumnList(q.req.columns) # "*")
    => /\ QueryStatus(q.err) = 200
       /\ q.results = executeSQLQueryScanResult(ParseSQL(DirectSQL(q.req)).query)

\* a step that is a start of the process
StartStep == api'.op = "NewJSONAssetManager" /\ api'.n = api.n + 1

\* the provenance kept for id
Provenance(meta, id) == meta[id].columns

Pulls(f) == {k \in 1..Len(lf.pulled) : lf.pulled[k].file = f}
Loads(f) == {k \in 1..Len(lf.loaded) : lf.loaded[k].file = f}

\* C23: no path is received from the jobs channel twice; and when LoadFiles has
\* returned, every worker has finished, no LoadCSVFile call and no merge is running,
\* and every path of the batch was received once and loaded once.
C23_AllProcessedOnce ==
    /\ \A f \in Files : Cardinality(Pulls(f)) <= 1 /\ Cardinality(Loads(f)) <= 1
    /\ lf.pc = "returned" =>
          /\ \A w \in Workers : lf.wpc[w] \in {"off", "done"} /\ wk[w].pc = "idle"
          /\ \A n \in 1..Len(lf.filePaths) :
                /\ Cardinality(Pulls(lf.filePaths[n])) = 1
                /\ Cardinality(Loads(lf.filePaths[n])) = 1
          /\ Len(lf.pulled) = Len(lf.filePaths)
          /\ lf.processedCount = Len(lf.filePaths)

\* LoadFiles has returned from a batch of two files that two workers shared
C23_Witness ==
    /\ lf.pc = "returned"
    /\ Len(lf.filePaths) = 2
    /\ Len(lf.pulled) = 2
    /\ lf.pulled[1].w # lf.pulled[2].w
    /\ Len(log) = 2

\* the rows of file f that carry an identifier
RecordsOf(f) ==
    {r \in 1..Len(DiskFiles[f].rows) :
        DiskFiles[f].rows[r].kind = "record" /\ DiskFiles[f].rows[r].id # ""}

\* the batch holds a file whose loading fails before its rows
HasFailedFile == \E n \in 1..Len(lf.filePaths) : ~DiskFiles[lf.filePaths[n]].opens

\* C24: when LoadFiles has returned from a batch in which the loading of a file
\* failed, it returned no error, and every row with an identifier of every other file
\* of the batch was merged and its entity has a document.
C24_FileFailureIsolated ==
    (lf.pc = "returned" /\ HasFailedFile)
    => /\ lf.err = NoError
       /\ \A n \in 1..Len(lf.filePaths) :
             DiskFiles[lf.filePaths[n]].opens =>
                \A r \in RecordsOf(lf.filePaths[n]) :
                   /\ \E k \in 1..Len(log) :
                         /\ log[k].sourceFile = FileNames[lf.filePaths[n]]
                         /\ log[k].id = DiskFiles[lf.filePaths[n]].rows[r].id
                         /\ log[k].status = "ok"
                   /\ assetFile[DiskFiles[lf.filePaths[n]].rows[r].id].exists

\* LoadFiles has returned from a batch of a file that failed and a file with a row,
\* the failure having been met first
C24_Witness ==
    /\ lf.pc = "returned"
    /\ HasFailedFile
    /\ Len(lf.filePaths) = 2
    /\ lf.loaded[1].err # NoError
    /\ Len(log) = 1
    /\ log[1].status = "ok"

\* C25: every call of LoadFiles returns.
C25_LoadFilesReturns == (lf.pc # "idle") ~> (lf.pc = "returned")

\* the complete documents the entity id has held: the one before each merge on it,
\* and the one it holds now
HeldDocs(id) ==
    {log[k].preAsset.data : k \in {n \in 1..Len(log) : log[n].id = id /\ log[n].preAsset.exists}}
    \cup (IF assetFile[id].exists /\ ~Unreadable(id) THEN {assetFile[id].data} ELSE {})

\* the identifiers in a list
Hit(list) == {list[n] : n \in 1..Len(list)}

\* C26: when a scan without WHERE clause that ran next to a merge has returned, each
\* row it emitted is the selection of a complete document its entity has held, and
\* every entity whose document existed when the scan began has a row.
C26_ScanSnapshots ==
    (q.pc = "done" /\ q.walked)
    => /\ \A n \in 1..Len(q.results) :
             \E d \in HeldDocs(q.hits[n]) : <<q.results[n]>> = RowsOf(d, q.parsed.query)
       /\ q.atStart \subseteq Hit(q.hits)

\* C27 (document file): a scan made while a document file is damaged returns without
\* error and has a row for every other entity; every merge that has returned
\* succeeded, and a merge on an entity whose document file was damaged was accepted
\* and wrote its document.
C27_DamageContained ==
    /\ (q.pc = "done" /\ q.scanned) =>
          /\ q.err = ""
          /\ {id \in StoreIds : assetFile[id].exists} \ unreadable.damaged \subseteq Hit(q.hits)
    /\ \A k \in 1..Len(log) :
          log[k].status # "running" =>
             /\ log[k].status = "ok"
             /\ log[k].damaged => log[k].changed
\* the rows from offset on, at most limit of them when limit is positive
Page(rows, limit, offset) ==
    LET from == IF offset < Len(rows) THEN offset + 1 ELSE Len(rows) + 1
        rest == SubSeq(rows, from, Len(rows))
    IN  IF limit > 0 /\ limit < Len(rest) THEN SubSeq(rest, 1, limit) ELSE rest

\* C31: the response to a request that succeeded holds the matching rows after the
\* first offset of them, at most limit rows when limit is positive, and its total is
\* the number of documents in the store.
C31_LimitOffsetHonoured ==
    (q.pc = "done" /\ q.req.given /\ q.err = "")
    => /\ QueryResponse(q.results).Data = Page(q.results, q.req.limit, q.req.offset)
       /\ (q.req.limit > 0 => QueryResponse(q.results).Count <= q.req.limit)
       /\ QueryResponse(q.results).Total = Cardinality(DocIds)
\* the WHERE clause of a query text as it is written, and the queries of the model
\* whose clause holds a second condition
WrittenWhere(sql) == Split(CollapseSpaces(TrimSpace(sql)), " WHERE ")[2]

CompoundTexts ==
    {sql \in OtherTexts :
        /\ Len(Split(CollapseSpaces(TrimSpace(sql)), " WHERE ")) = 2
        /\ \E w \in {" AND ", " OR "} : IndexOf(WrittenWhere(sql), w) > 0}

\* C33: a query whose WHERE clause holds more than one operator occurrence parses;
\* its operator is the leftmost operator of the clause, its column the text before
\* that operator, and its literal the whole text after it, the second condition
\* included, as they are written in the clause.
C33_FirstOperatorOnly ==
    (q.pc # "idle" /\ q.sql \in CompoundTexts)
    => LET clause == WrittenWhere(q.sql)
           m == OperatorMatch(clause)
       IN  /\ q.parsed.err = ""
           /\ q.parsed.query.WhereOperator = m.operator
           /\ q.parsed.query.WhereColumn = TrimSpace(SubSeq(clause, 1, m.start - 1))
           /\ q.parsed.query.WhereValue = TrimSpace(SubSeq(clause, m.end, Len(clause)))

\* every call made so far was an IncrementProgress, and all of them have returned
OnlyIncrements ==
    /\ \A w \in Workers : pt.g[w].pc = "idle"
    /\ \A i \in 1..Len(pt.calls) : pt.calls[i] = "IncrementProgress"

\* C32: N IncrementProgress calls from several goroutines raise the count by
\* exactly N, and the tracker is never idle while the last progress operation is
\* less than the idle timeout old: no timer that a later operation failed to stop
\* marks it idle.
C32_ProgressThreadSafe ==
    /\ OnlyIncrements => pt.current = Len(pt.calls)
    /\ pt.isIdle => pt.clock - pt.lastOp >= IdleTimeout

\* the two halves of C32, each on its own
C32_CountExact == OnlyIncrements => pt.current = Len(pt.calls)

C32_NoStaleIdle == pt.isIdle => pt.clock - pt.lastOp >= IdleTimeout

\* the values the specification says are not merged
NotMerged(value) == value \in {"", "N.A."} \/ ToLower(value) = "null"

\* the value of column c in a document file, as a sequence of no or one value
ValueIn(file, c) ==
    IF file.exists /\ c \in DOMAIN file.data THEN <<file.data[c]>> ELSE <<>>

\* the provenance record of column c in metadata.Columns, as a sequence of no or one
RecordIn(cols, c) ==
    LET i == FindColumn(cols, c) IN IF i = 0 THEN <<>> ELSE <<cols[i]>>

\* the last row read was merged, and the merge has returned
LastMerged == Quiescent /\ Len(log) > 0 /\ log[Len(log)].id # ""

\* a row without identifier is read in this step
ReadsRowWithoutId == Len(log') = Len(log) + 1 /\ log'[Len(log')].id = ""

\* C34: a cell that is empty, "null" in any letter case, or "N.A." is not merged:
\* the stored value and the provenance record of its column are after the merge
\* what they were before it, whatever the date of the file; and a row whose
\* identifier is empty creates and changes no entity.
C34_SentinelsNotMerged ==
    /\ [](LastMerged =>
            LET m == log[Len(log)]
            IN  \A n \in 1..Len(m.record) :
                   (n <= Len(m.header) /\ NotMerged(m.record[n]))
                   => /\ ValueIn(assetFile[m.id], m.header[n]) = ValueIn(m.preAsset, m.header[n])
                      /\ RecordIn(metaFile[m.id].columns, m.header[n])
                            = RecordIn(m.preColumns, m.header[n]))
    /\ [][ReadsRowWithoutId => UNCHANGED <<assetFile, metaFile, Data, columns, assetIDs>>]_vars

C34_Witness ==
    /\ Quiescent
    /\ Len(log) = 2
    /\ log[1].id = "AAPL" /\ log[2].id = "AAPL"
    /\ log[1].record[2] = "Apple Inc."
    /\ log[2].record[2] = "NULL"
    /\ Later(log[2].effectiveDate, log[1].effectiveDate)
    /\ Stored("AAPL", "Company") = "Apple Inc."
    /\ ProvDate("AAPL", "Company") = log[1].effectiveDate
    /\ Stored("AAPL", "Revenue") = log[2].record[3]

\* the id filter is set and no pattern of it is a prefix of id
Excluded(id) ==
    /\ idPrefixFilter # <<>>
    /\ \A n \in 1..Len(idPrefixFilter) : ~HasPrefix(id, idPrefixFilter[n])

\* the last merge call has returned
LastReturned == Quiescent /\ Len(log) > 0

\* a column of the call whose cell is merged if its date allows it
Offered(m) ==
    {m.header[n] : n \in {x \in 1..Len(m.record) : x <= Len(m.header) /\ ~NotMerged(m.record[x])}}

\* column c was first seen by the call, or seen with a date after the recorded one
Accepted(m, c) ==
    \/ RecordIn(m.preColumns, c) = <<>>
    \/ Later(m.effectiveDate, RecordIn(m.preColumns, c)[1].effective_date)

\* a document file is written in this step, by a merge that returns true
WritesForChange ==
    assetFile' # assetFile
    => \E k \in 1..Len(log) : log[k].status = "running" /\ log'[k].status = "ok" /\ log'[k].changed

SameFolded == api.op = "GetJSONFilePath" /\ api.n >= 2 /\ ToLower(api.before[1]) = ToLower(api.id)

\* C37: the path GetJSONFilePath returns is a function of the case-folded
\* identifier: two calls for the same identifier, or for identifiers that differ in
\* letter case only, return the same path.
C37_PathOfFoldedId == SameFolded => api.path = api.before[2]

\* the part of C37 about one and the same identifier
C37_SameIdSamePath ==
    (api.op = "GetJSONFilePath" /\ api.n >= 2 /\ api.before[1] = api.id) => api.path = api.before[2]

\* the directory of the path is a function of the case-folded identifier
C37_SameDirectory ==
    SameFolded => Dir(api.path) = Dir(api.before[2])

\* every provenance record of before is there after, with a date that is not earlier
ProvenanceKept(before, after) ==
    \A id \in StoreIds :
        \A n \in 1..Len(before[id].columns) :
            LET r == before[id].columns[n]
            IN  \E k \in 1..Len(after[id].columns) :
                   /\ after[id].columns[k].column_name = r.column_name
                   /\ ~Later(r.effective_date, after[id].columns[k].effective_date)

\* C38: a start of the process, with its migration of the legacy index, removes no
\* provenance record of any entity and lowers no recorded effective date, also
\* when provenance files exist already.
C38_MigrationKeepsProvenance == [][StartStep => ProvenanceKept(metaFile, metaFile')]_vars

\* C39: in every step of every run of merges, overlapping or not, each provenance
\* record stays, and its effective date does not become earlier.
C39_DatesNeverDecrease == [][ProvenanceKept(metaFile, metaFile')]_vars

\* the documents that pass the query's predicate, if it has one
Answering(query) ==
    {id \in StoreIds : assetFile[id].exists /\ RowsOf(assetFile[id].data, query) # <<>>}

\* C40: a scan returns without error and with one row for each stored document
\* that passes the predicate, and no row more: the provenance files, which the
\* walk reads as well, give no row, for SELECT * and for a column list, with a
\* WHERE clause or without.
C40_RowsFromDocumentsOnly ==
    (q.pc = "done" /\ q.scanned)
    => /\ q.err = ""
       /\ Len(q.results) = Cardinality(Answering(q.parsed.query))
       /\ ~q.parsed.query.HasWhere => Len(q.results) = Cardinality(DocIds)
       /\ \A n \in 1..Len(q.results) : "updated_at" \notin DOMAIN q.results[n]

\* a column list without predicate was scanned over three documents, each with its
\* provenance file next to it
C40_Witness ==
    /\ q.pc = "done" /\ q.scanned
    /\ ~q.parsed.query.HasWhere
    /\ q.parsed.query.SelectColumns[1] # "*"
    /\ \A id \in StoreIds : assetFile[id].exists /\ metaFile[id].exists
    /\ Len(q.results) = 3

=============================================================================
